---- MODULE Spec2Model ----
(***************************************************************************)
(* Verification model of the template builder: the config-driven template  *)
(* engine (renderTemplateWithConfig), the Figma import path, the markup     *)
(* adapters that build TemplateSchema trees, the unified-schema script and  *)
(* the masked-image-group detection of the Figma template generator.       *)
(*                                                                         *)
(* A compiled document is modelled as a sequence of tokens in document      *)
(* order.  A token is a piece of the markup that the engine's string        *)
(* replacements can hit: a run of text, the value of a src="" or href=""    *)
(* attribute, or a colour literal.                                          *)
(***************************************************************************)
EXTENDS Integers, Sequences, FiniteSets, TLC

VARIABLES
    rIn,        \* the last render call: template tokens and submission
    rOut,       \* what renderTemplateWithConfig handed back to its caller
    group,      \* the GROUP node last given to asMaskedImageGroup
    detected,   \* its result
    prevDetected, \* the result for the same children in the other order
    reordered,  \* TRUE when group is the reordering of the previous input
    svgs,       \* the export's vector markup for the mask shape and for the group
    renderable, \* what findAllRenderableNodes returned for the group
    maskPath,   \* the mask path generateHTMLTemplate wrote for the group
    db,         \* prisma.template rows, by family
    files,      \* templates/<family>/ on the filesystem, by family
    configCache, \* the template registry's configCache, by family
    req,        \* the import request in flight
    resp,       \* the last response of the import route
    globalNodeIdCounter, \* the markup adapter's module-level id counter
    inFlight,   \* conversions that reset the counter and await their template file
    lastSchema, \* the schema the markup adapter returned last
    lastCall,   \* the conversion that returned it: converter, document and config
    schemaFiles, \* templates/<family>/schema-<i>.json, by variant
    unified,    \* templates/<family>/schema.json
    raw,        \* the raw design frame read by raw-figma-to-import
    exportFile, \* examples/figma-import-<name>.json as that script wrote it
    schemaCache, \* the node registry's schemaCache, by cache key
    lastLoad,   \* what getNodeTemplateSchema returned last
    rendered,   \* what the last renderTemplateWithConfig call of the server returned
    variantRun, \* a variant applied to a schema's nodes: overrides and visibility
    palette,    \* the colours a render used: primary, and every secondary it wrote
    assetRun,   \* a render with the asset and font passes: disk, template, output
    formatCall, \* the last getTemplateFormat call: what it found and what it returned
    storage,    \* the storage route: output files, submissions, last request and response
    formatsRun, \* the formats the render route derived from a submission's formats value
    refresh     \* a mounted AutoRefresh component: props, interval, requests in flight

vars == <<rIn, rOut, group, detected, prevDetected, reordered,
          svgs, renderable, maskPath,
          db, files, configCache, req, resp,
          globalNodeIdCounter, inFlight, lastSchema, lastCall, schemaFiles, unified,
          raw, exportFile, schemaCache, lastLoad, rendered,
          variantRun, palette, assetRun, formatCall, storage, formatsRun, refresh>>

renderVars == <<rIn, rOut>>
maskVars == <<group, detected, prevDetected, reordered, svgs, renderable, maskPath>>
importVars == <<db, files, configCache, req, resp>>

adapterVars == <<globalNodeIdCounter, inFlight, lastSchema, lastCall>>
unifyVars == <<schemaFiles, unified>>
normalizeVars == <<raw, exportFile>>
registryVars == <<schemaCache, lastLoad, rendered>>
coreVars == <<renderVars, maskVars, importVars, adapterVars, unifyVars, normalizeVars,
              registryVars>>
laterVars == <<variantRun, palette, assetRun, formatCall, storage, formatsRun, refresh>>

\* What an action of one part of the program leaves alone.
notRender == <<maskVars, importVars, adapterVars, unifyVars, normalizeVars, registryVars, laterVars>>
notMask == <<renderVars, importVars, adapterVars, unifyVars, normalizeVars, registryVars, laterVars>>
notImport == <<renderVars, maskVars, adapterVars, unifyVars, normalizeVars, registryVars, laterVars>>
notAdapter == <<renderVars, maskVars, importVars, unifyVars, normalizeVars, registryVars, laterVars>>
notUnify == <<renderVars, maskVars, importVars, adapterVars, normalizeVars, registryVars, laterVars>>
notNormalize == <<renderVars, maskVars, importVars, adapterVars, unifyVars, registryVars, laterVars>>
notRegistry == <<renderVars, maskVars, adapterVars, normalizeVars, laterVars>>
notVariant == <<coreVars, palette, assetRun, formatCall, storage, formatsRun, refresh>>
notPalette == <<coreVars, variantRun, assetRun, formatCall, storage, formatsRun, refresh>>
notAssets == <<coreVars, variantRun, palette, formatCall, storage, formatsRun, refresh>>
notFormat == <<coreVars, variantRun, palette, assetRun, storage, formatsRun, refresh>>
notStorage == <<coreVars, variantRun, palette, assetRun, formatCall, formatsRun, refresh>>
notFormats == <<coreVars, variantRun, palette, assetRun, formatCall, storage, refresh>>
notRefresh == <<coreVars, variantRun, palette, assetRun, formatCall, storage, formatsRun>>

Null == "null"

(***************************************************************************)
(* Bounds of the model.                                                    *)
(***************************************************************************)
MaxPeople == 2      \* people listed in a submission
MaxSlots == 3       \* tokens of a template document
MaxChildren == 3    \* children of a design group
MaxTop == 2         \* elements under the root container of a template document
MaxInFlight == 2    \* conversions awaiting their template file at once

(***************************************************************************)
(* Generic helpers.                                                        *)
(***************************************************************************)
SeqsUpTo(S, n) == UNION {[1..k -> S] : k \in 0..n}

Reverse(s) == [i \in 1..Len(s) |-> s[Len(s) + 1 - i]]

\* Index of the first token of html that reads `pattern`, 0 when there is none.
FirstIndex(html, pattern) ==
    IF \E i \in 1..Len(html) : html[i].s = pattern
    THEN CHOOSE i \in 1..Len(html) :
            html[i].s = pattern /\ \A j \in 1..(i - 1) : html[j].s # pattern
    ELSE 0

(***************************************************************************)
(* Template engine: configuration.                                         *)
(* The field list is the one generateConfig emits for a design with a text *)
(* field, a date field and an image field (primaryColor always last),      *)
(* together with the people field of the hand-written poster configs.      *)
(***************************************************************************)
TitlePattern == "{{eventTitle}}"
DatePattern == "{{eventDate}}"
LogoPattern == "{{logo}}"
NamePattern == "John Doe"
HeadshotPattern == "assets/speaker-photo.png"
DefaultColor == "#3D9DFF"

PersonFields ==
    << [type |-> "text", name |-> "name", pattern |-> NamePattern],
       [type |-> "image", name |-> "headshot", pattern |-> HeadshotPattern] >>

ConfigFields ==
    << [type |-> "text", name |-> "eventTitle", pattern |-> TitlePattern],
       [type |-> "date", name |-> "eventDate", pattern |-> DatePattern],
       [type |-> "image", name |-> "logo", pattern |-> LogoPattern],
       [type |-> "people", name |-> "people", pattern |-> Null],
       [type |-> "color", name |-> "primaryColor", pattern |-> DefaultColor] >>

ScalarFieldNames == {"eventTitle", "eventDate", "primaryColor"}

\* A token: kind of markup position, its string, and (bookkeeping only, never
\* read by the engine) the people-loop iterations that wrote it.
Tok(kind, s) == [kind |-> kind, s |-> s, by |-> <<>>]

(***************************************************************************)
(* formatDate: date-fns format() of a Date.  An unparsable string gives an *)
(* Invalid Date, for which replaceField leaves the document alone.         *)
(***************************************************************************)
formatDate(value) ==
    CASE value = "D:2025-11-20" -> "November"
      [] value = "2025-12-24" -> "December"
      [] OTHER -> "Invalid Date"

IsValidDate(value) == value \in {"D:2025-11-20", "2025-12-24"}

Falsy(value) == value = Null \/ value = ""

(***************************************************************************)
(* replaceField: the replacement string for a value, or Null when the      *)
(* function returns the document unchanged.                                *)
(***************************************************************************)
\* Mutant: a missing date is blanked like a missing text value.
replacementValueBlankDate(field, value) ==
    CASE field.type = "date" ->
            IF Falsy(value) THEN ""
            ELSE IF ~IsValidDate(value) THEN Null
            ELSE formatDate(value)
      [] field.type = "color" -> IF Falsy(value) THEN DefaultColor ELSE value
      [] OTHER -> IF Falsy(value) THEN "" ELSE value

replacementValue(field, value) ==
    CASE field.type = "date" ->
            IF Falsy(value) THEN Null
            ELSE IF ~IsValidDate(value) THEN Null
            ELSE formatDate(value)
      [] field.type = "color" -> IF Falsy(value) THEN DefaultColor ELSE value
      [] OTHER -> IF Falsy(value) THEN "" ELSE value

\* html.split(pattern).join(replacementValue): every occurrence is replaced.
replaceField(html, field, value) ==
    LET rv == replacementValue(field, value) IN
    IF rv = Null THEN html
    ELSE [i \in 1..Len(html) |->
            IF html[i].s = field.pattern
            THEN [html[i] EXCEPT !.s = rv]
            ELSE html[i]]

(***************************************************************************)
(* processPeople.  replaceFirst replaces the first match of the pattern in *)
(* the whole document; the headshot branch builds its expressions with the *)
(* "g" flag, so String.replace replaces every src (else every href) match. *)
(***************************************************************************)
replaceFirst(html, pattern, replacement, index) ==
    LET at == FirstIndex(html, pattern) IN
    IF at = 0 THEN html
    ELSE [html EXCEPT ![at] = [kind |-> @.kind, s |-> replacement,
                               by |-> Append(@.by, index)]]

replaceAllAttr(html, kind, pattern, replacement, index) ==
    [i \in 1..Len(html) |->
        IF html[i].kind = kind /\ html[i].s = pattern
        THEN [kind |-> kind, s |-> replacement, by |-> Append(html[i].by, index)]
        ELSE html[i]]

HasAttr(html, kind, pattern) ==
    \E i \in 1..Len(html) : html[i].kind = kind /\ html[i].s = pattern

replaceHeadshot(html, pattern, headshotDataUri, index) ==
    IF HasAttr(html, "src", pattern)
    THEN replaceAllAttr(html, "src", pattern, headshotDataUri, index)
    ELSE IF HasAttr(html, "href", pattern)
    THEN replaceAllAttr(html, "href", pattern, headshotDataUri, index)
    ELSE html

\* One pass of the inner loop "for (const personField of peopleField.fields)".
processPersonField(html, personField, person, headshotDataUri, index) ==
    IF personField.type = "image" /\ personField.name = "headshot"
    THEN IF Falsy(headshotDataUri) THEN html
         ELSE replaceHeadshot(html, personField.pattern, headshotDataUri, index)
    ELSE IF personField.type = "text"
    THEN IF Falsy(person[personField.name]) THEN html
         ELSE replaceFirst(html, personField.pattern, person[personField.name], index)
    ELSE html

RECURSIVE processPersonFields(_, _, _, _, _)
processPersonFields(html, k, person, headshotDataUri, index) ==
    IF k > Len(PersonFields) THEN html
    ELSE processPersonFields(
            processPersonField(html, PersonFields[k], person, headshotDataUri, index),
            k + 1, person, headshotDataUri, index)

RECURSIVE processPeopleFrom(_, _, _, _)
processPeopleFrom(html, index, people, uploadUrls) ==
    IF index > Len(people) THEN html
    ELSE processPeopleFrom(
            processPersonFields(html, 1, people[index],
                IF index <= Len(uploadUrls) THEN uploadUrls[index] ELSE Null, index),
            index + 1, people, uploadUrls)

processPeople(html, people, uploadUrls) == processPeopleFrom(html, 1, people, uploadUrls)

(***************************************************************************)
(* The colour pass of renderTemplateWithConfig: every default-colour       *)
(* literal becomes the submission's primary colour (default when blank).   *)
(***************************************************************************)
processColors(html, submission) ==
    LET primaryColor == IF Falsy(submission.top["primaryColor"])
                        THEN DefaultColor ELSE submission.top["primaryColor"] IN
    [i \in 1..Len(html) |->
        IF html[i].s = DefaultColor THEN [html[i] EXCEPT !.s = primaryColor] ELSE html[i]]

(***************************************************************************)
(* Field loop of renderTemplateWithConfig.                                 *)
(* resolveValue: the submission column, else the dynamic-fields entry.     *)
(***************************************************************************)
\* Mutant: the dynamic-fields entry is consulted before the submission column.
resolveValueDynamicFirst(field, submission) ==
    IF submission.fields[field.name] # Null
    THEN submission.fields[field.name]
    ELSE IF submission.top[field.name] # Null
    THEN submission.top[field.name]
    ELSE Null

resolveValue(field, submission) ==
    IF submission.top[field.name] # Null
    THEN submission.top[field.name]
    ELSE IF submission.fields[field.name] # Null
    THEN submission.fields[field.name]
    ELSE Null

processImageField(html, field, submission) ==
    LET imageUrl == submission.images[field.name] IN
    IF Falsy(imageUrl) THEN html
    ELSE [i \in 1..Len(html) |->
            IF html[i].s = field.pattern THEN [html[i] EXCEPT !.s = imageUrl] ELSE html[i]]

processField(html, field, submission) ==
    CASE field.type = "people" -> processPeople(html, submission.people, submission.uploadUrls)
      [] field.type = "image" /\ field.name # "headshot" -> processImageField(html, field, submission)
      [] OTHER -> replaceField(html, field, resolveValue(field, submission))

RECURSIVE processFields(_, _, _)
processFields(html, k, submission) ==
    IF k > Len(ConfigFields) THEN html
    ELSE processFields(processField(html, ConfigFields[k], submission), k + 1, submission)

\* The function returns Promise<string>: the document and nothing else.
renderTemplateWithConfig(html, submission) ==
    [status |-> "ok",
     html |-> processFields(processColors(html, submission), 1, submission),
     diagnostics |-> {}]

(***************************************************************************)
(* Render calls.  The inputs are drawn from small sets: a template of at   *)
(* most MaxSlots tokens and a submission.                                  *)
(***************************************************************************)
PersonNames == <<"Ann", "Bob", "Cy", "Dee">>
Headshots == <<"data:h1", "data:h2", "data:h3", "data:h4">>

FieldTokens ==
    { Tok("text", TitlePattern), Tok("text", DatePattern), Tok("src", LogoPattern),
      Tok("color", DefaultColor), Tok("text", "static") }

PeopleTokens ==
    { Tok("text", NamePattern), Tok("src", HeadshotPattern),
      Tok("href", HeadshotPattern), Tok("text", "static") }

NoValues == [f \in ScalarFieldNames |-> Null]

TopValues ==
    { [eventTitle |-> t, eventDate |-> d, primaryColor |-> c] :
        t \in {Null, "", "Launch Night"},
        d \in {Null, "D:2025-11-20"},
        c \in {Null, "", "#111111"} }

DynamicValues ==
    { [eventTitle |-> t, eventDate |-> d, primaryColor |-> c] :
        t \in {Null, "Dyn Title"},
        d \in {Null, "2025-12-24", "not a date"},
        c \in {Null, "#222222"} }

\* People lists: person i either has the name PersonNames[i], no name, or a
\* name that reads exactly like the template's placeholder; likewise a headshot.
PeopleLists ==
    UNION { { [i \in 1..k |-> [name |-> n[i]]] :
                n \in [1..k -> {"", NamePattern} \cup {PersonNames[j] : j \in 1..k}] }
            : k \in 0..MaxPeople }

ProperPeople(people) == \A i \in 1..Len(people) : people[i].name \in {"", NamePattern, PersonNames[i]}

UploadLists(k) == { u \in [1..k -> {""} \cup {Headshots[j] : j \in 1..k}] :
                        \A i \in 1..k : u[i] \in {"", Headshots[i]} }

RenderFields(template, top, fields, logo) ==
    LET submission == [top |-> top, fields |-> fields, images |-> [logo |-> logo],
                       people |-> <<>>, uploadUrls |-> <<>>] IN
    /\ rIn.kind = "none"
    /\ rIn' = [kind |-> "fields", template |-> template, submission |-> submission]
    /\ rOut' = renderTemplateWithConfig(template, submission)
    /\ UNCHANGED notRender

RenderPeople(template, people, uploadUrls) ==
    LET submission == [top |-> [NoValues EXCEPT !["primaryColor"] = DefaultColor],
                       fields |-> NoValues, images |-> [logo |-> Null],
                       people |-> people, uploadUrls |-> uploadUrls] IN
    /\ rIn.kind = "none"
    /\ rIn' = [kind |-> "people", template |-> template, submission |-> submission]
    /\ rOut' = renderTemplateWithConfig(template, submission)
    /\ UNCHANGED notRender

\* A call is drawn only while no call has been made: the guard comes first so
\* that the inputs are not enumerated in states where the call cannot happen.
RenderFieldsCall ==
    /\ rIn.kind = "none"
    /\ \E template \in SeqsUpTo(FieldTokens, MaxSlots), top \in TopValues,
          fields \in DynamicValues, logo \in {Null, "data:logo"} :
            RenderFields(template, top, fields, logo)

RenderPeopleCall ==
    /\ rIn.kind = "none"
    /\ \E template \in SeqsUpTo(PeopleTokens, MaxSlots), people \in PeopleLists :
          /\ ProperPeople(people)
          /\ \E uploadUrls \in UploadLists(Len(people)) :
                RenderPeople(template, people, uploadUrls)

NextRender == RenderFieldsCall \/ RenderPeopleCall

(***************************************************************************)
(* Masked-image-group detection of the Figma template generator.           *)
(* A design node: its id, its type, whether one of its fills is an IMAGE   *)
(* paint with an imageRef, and the binding extractBinding reads from its   *)
(* layer name (Null when the name carries no {{identifier}}).              *)
(***************************************************************************)
ShapeTypes == {"VECTOR", "RECTANGLE", "ELLIPSE"}
NodeTypes == ShapeTypes \cup {"TEXT"}
ChildIds == <<"1:1", "1:2", "1:3", "1:4">>

hasImageFill(n) == n.img
isShape(n) == n.type \in ShapeTypes

\* The null result of asMaskedImageGroup.
NotMasked == [found |-> FALSE]

asMaskedImageGroup(g) ==
    IF g.type # "GROUP" \/ Len(g.children) # 2 THEN NotMasked
    ELSE LET a == g.children[1]
             b == g.children[2]
         IN  IF hasImageFill(a) /\ isShape(b)
             THEN [found |-> TRUE, maskNode |-> b, imageNode |-> a, binding |-> a.bind]
             ELSE IF hasImageFill(b) /\ isShape(a)
             THEN [found |-> TRUE, maskNode |-> a, imageNode |-> b, binding |-> b.bind]
             ELSE NotMasked

\* One entry of findAllRenderableNodes: the node to render, its binding,
\* and whether it is a masked-image group rendered as one clipped image.
Renderable(id, binding, masked) ==
    [node |-> id, binding |-> binding, isStatic |-> (binding = Null), masked |-> masked]

\* traverse for a node without children, met under parentFrame (Null when
\* no FRAME encloses it) with immediateParent as its direct parent.
traverseLeaf(node, parentFrame, immediateParent) ==
    IF node.bind # Null
    THEN IF node.type = "TEXT" /\ parentFrame # Null /\ immediateParent = parentFrame
         THEN <<Renderable(parentFrame, node.bind, FALSE)>>
         ELSE <<Renderable(node.id, node.bind, FALSE)>>
    ELSE IF node.type \in ShapeTypes
         THEN <<Renderable(node.id, Null, FALSE)>>
         ELSE <<>>

RECURSIVE traverseChildren(_, _, _, _)
traverseChildren(children, i, parentFrame, immediateParent) ==
    IF i > Len(children) THEN <<>>
    ELSE traverseLeaf(children[i], parentFrame, immediateParent)
         \o traverseChildren(children, i + 1, parentFrame, immediateParent)

\* findAllRenderableNodes for an export whose only top-level node is the
\* container g (a GROUP, or a FRAME whose name carries no binding).
findAllRenderableNodes(g) ==
    IF g.type = "GROUP"
    THEN LET masked == asMaskedImageGroup(g)
         IN  IF masked.found
             THEN <<Renderable(g.id, masked.binding, TRUE)>>
             ELSE traverseChildren(g.children, 1, Null, g.id)
    ELSE traverseChildren(g.children, 1, g.id, g.id)

\* Vector markup: the elements of an exported SVG string in document order.
\* Absent is a node id with no entry in svgs, Blank markup is an entry of
\* whitespace only.
PathEl(d) == [el |-> "path", d |-> d, w |-> 0, h |-> 0, cx |-> 0, cy |-> 0]
RectEl(w, h) == [el |-> "rect", d |-> "", w |-> w, h |-> h, cx |-> 0, cy |-> 0]
\* An <ellipse>: w and h hold its rx and ry.
EllipseEl(cx, cy, rx, ry) == [el |-> "ellipse", d |-> "", w |-> rx, h |-> ry, cx |-> cx, cy |-> cy]
CircleEl == [el |-> "circle", d |-> "", w |-> 0, h |-> 0, cx |-> 0, cy |-> 0]
NoMarkup == [present |-> FALSE, blank |-> FALSE, els |-> <<>>]
BlankMarkup == [present |-> TRUE, blank |-> TRUE, els |-> <<>>]
Markup(els) == [present |-> TRUE, blank |-> FALSE, els |-> els]

NoPath == [found |-> FALSE, d |-> ""]

\* parseFloat(x) || fallback, for the whole numbers of the model.
OrDefault(x, fallback) == IF x = 0 THEN fallback ELSE x

\* The outline of an <ellipse> element as a path.
ellipseElPath(e) ==
    LET rx == OrDefault(e.w, 50)
        ry == OrDefault(e.h, 50)
    IN  "M" \o ToString(e.cx - rx) \o "," \o ToString(e.cy)
        \o "a" \o ToString(rx) \o "," \o ToString(ry) \o " 0 1,1 " \o ToString(2 * rx) \o ",0"
        \o "a" \o ToString(rx) \o "," \o ToString(ry) \o " 0 1,1 -" \o ToString(2 * rx) \o ",0"

\* The first <path>'s d attribute; without a <path>, the outline of the
\* first <rect>; without either, that of the first <ellipse>; otherwise
\* null (a <circle> is not looked for).
extractPathDFromSvg(svg) ==
    IF ~svg.present \/ svg.blank THEN NoPath
    ELSE LET paths == SelectSeq(svg.els, LAMBDA e : e.el = "path")
             rects == SelectSeq(svg.els, LAMBDA e : e.el = "rect")
             ellipses == SelectSeq(svg.els, LAMBDA e : e.el = "ellipse")
         IN  IF paths # <<>> THEN [found |-> TRUE, d |-> paths[1].d]
             ELSE IF rects # <<>>
             THEN [found |-> TRUE,
                   d |-> "M0 0h" \o ToString(OrDefault(rects[1].w, 100))
                         \o "v" \o ToString(OrDefault(rects[1].h, 100)) \o "H0V0z"]
             ELSE IF ellipses # <<>>
             THEN [found |-> TRUE, d |-> ellipseElPath(ellipses[1])]
             ELSE NoPath

\* The ellipse that fills width by height (both even in the model).
ellipsePathD(width, height) ==
    LET cx == width \div 2
        cy == height \div 2
        rx == width \div 2
        ry == height \div 2
    IN  "M" \o ToString(cx - rx) \o "," \o ToString(cy)
        \o " a" \o ToString(rx) \o "," \o ToString(ry) \o " 0 1,1 " \o ToString(width) \o ",0"
        \o " a" \o ToString(rx) \o "," \o ToString(ry) \o " 0 1,1 -" \o ToString(width) \o ",0"

\* A string used as a condition: the empty string is falsy.
Usable(path) == path.found /\ path.d # ""

\* Mutant: the group's markup is asked before the mask shape's.
maskPathOfGroupFirst(g, maskSvg, groupSvg) ==
    LET a == extractPathDFromSvg(maskSvg)
        b == extractPathDFromSvg(groupSvg)
    IN  IF Usable(b) THEN b.d
        ELSE IF Usable(a) THEN a.d
        ELSE ellipsePathD(OrDefault(g.width, 100), OrDefault(g.height, 100))

\* The mask path generateHTMLTemplate writes for a masked-image group.
maskPathOf(g, maskSvg, groupSvg) ==
    LET a == extractPathDFromSvg(maskSvg)
        b == extractPathDFromSvg(groupSvg)
    IN  IF Usable(a) THEN a.d
        ELSE IF Usable(b) THEN b.d
        ELSE ellipsePathD(OrDefault(g.width, 100), OrDefault(g.height, 100))

\* What an exported child node may be, and the children built from a choice
\* of one such description per position.
ChildKinds == [type : NodeTypes, img : BOOLEAN, bind : {Null, "headshot"}]

MakeChildren(c) ==
    [i \in DOMAIN c |-> [id |-> ChildIds[i], type |-> c[i].type, img |-> c[i].img,
                         bind |-> c[i].bind]]

\* The vector markup an export may carry for a node, its paths tagged by owner.
MarkupsOf(tag) ==
    { NoMarkup, BlankMarkup, Markup(<<CircleEl>>), Markup(<<PathEl("")>>),
      Markup(<<PathEl("M" \o tag)>>), Markup(<<RectEl(8, 0)>>),
      Markup(<<RectEl(8, 6), PathEl("L" \o tag)>>),
      Markup(<<CircleEl, EllipseEl(9, 9, 4, 0)>>) }

\* Width and height of a container: a missing or zero one is 0.
GroupSizes == {<<200, 100>>, <<0, 100>>, <<200, 0>>}

GroupId == "0:1"

\* The svgs of an export, by node id.
NoSvgs == [id \in {GroupId, ChildIds[1], ChildIds[2]} |-> NoMarkup]

\* The mask path written for g, Null when g is not rendered as a masked group.
generatedMaskPath(g, s) ==
    IF \E i \in 1..Len(findAllRenderableNodes(g)) : findAllRenderableNodes(g)[i].masked
    THEN maskPathOf(g, s[asMaskedImageGroup(g).maskNode.id], s[g.id])
    ELSE Null

\* The generator renders an export whose top-level node is a container.
DetectGroup(type, children, width, height, s) ==
    /\ group.id = Null
    /\ group' = [id |-> GroupId, type |-> type, children |-> children,
                 width |-> width, height |-> height]
    /\ detected' = asMaskedImageGroup(group')
    /\ prevDetected' = NotMasked
    /\ reordered' = FALSE
    /\ svgs' = s
    /\ renderable' = findAllRenderableNodes(group')
    /\ maskPath' = generatedMaskPath(group', s)
    /\ UNCHANGED notMask

\* The same export with the two children in the other order.
DetectReordered ==
    /\ group.id # Null
    /\ ~reordered
    /\ Len(group.children) = 2
    /\ group' = [group EXCEPT !.children = Reverse(@)]
    /\ detected' = asMaskedImageGroup(group')
    /\ prevDetected' = detected
    /\ reordered' = TRUE
    /\ renderable' = findAllRenderableNodes(group')
    /\ maskPath' = generatedMaskPath(group', svgs)
    /\ UNCHANGED svgs
    /\ UNCHANGED notMask

\* The markup and the size of a container matter only when it is rendered
\* as a masked group; other containers are given none.
DetectGroupCall ==
    /\ group.id = Null
    /\ \E type \in {"GROUP", "FRAME"}, k \in 0..MaxChildren :
          \E c \in [1..k -> ChildKinds] :
              IF asMaskedImageGroup([type |-> type, children |-> MakeChildren(c)]).found
              THEN \E size \in GroupSizes, g \in MarkupsOf(GroupId),
                      a \in MarkupsOf(ChildIds[1]), b \in MarkupsOf(ChildIds[2]) :
                       DetectGroup(type, MakeChildren(c), size[1], size[2],
                                   (GroupId :> g) @@ (ChildIds[1] :> a) @@ (ChildIds[2] :> b))
              ELSE DetectGroup(type, MakeChildren(c), 200, 100, NoSvgs)

NextMask == DetectGroupCall \/ DetectReordered

(***************************************************************************)
(* Figma import route: POST /api/import/figma and generateTemplateFromFigma *)
(* An export body carries name, width, height and nodes; a node is kept by  *)
(* its id and the binding its layer name carries.  A stored html document   *)
(* is the sequence of elements generated for the export's nodes.            *)
(***************************************************************************)
Families == {"event-poster"}

\* name.toLowerCase().replace(/\s+/g, "-").replace(/[^a-z0-9-]/g, "")
templateIdOf(name) ==
    IF name = "Event Poster" THEN "event-poster" ELSE ""

ExportNode(id, bind) == [id |-> id, bind |-> bind, valid |-> TRUE]
\* A null entry in the nodes array.
BadNode == [id |-> Null, bind |-> Null, valid |-> FALSE]

ExportNodeLists ==
    { <<>>,
      <<ExportNode("1:1", "eventTitle")>>,
      <<ExportNode("1:1", "eventTitle"), ExportNode("1:2", Null)>>,
      <<ExportNode("1:1", "eventTitle"), ExportNode("1:1", Null)>>,
      <<BadNode>> }

ExportBodies ==
    [name : {"", "Event Poster"}, width : {0, 1080}, height : {0, 1350},
     isArray : BOOLEAN, nodes : ExportNodeLists]

Sessions == {"none", "staff", "outsider"}

NoHtml == [present |-> FALSE, els |-> <<>>]
NoTemplate == [exists |-> FALSE]
NoConfig == [exists |-> FALSE]
NoFiles == [exists |-> FALSE]
NoRequest == [pending |-> FALSE]
NoResponse == [status |-> 0, templateId |-> ""]

\* Accessing node.name of a null entry throws.
Throws(body) == \E i \in 1..Len(body.nodes) : ~body.nodes[i].valid

generateConfig(body) ==
    [exists |-> TRUE, id |-> templateIdOf(body.name), name |-> body.name,
     width |-> body.width, height |-> body.height, variants |-> <<"1">>,
     fields |-> ({body.nodes[i].bind : i \in 1..Len(body.nodes)} \ {Null})
                    \cup {"primaryColor"}]

generateHTMLTemplate(body) ==
    [present |-> TRUE,
     els |-> [i \in 1..Len(body.nodes) |->
                [id |-> body.nodes[i].id,
                 content |-> IF body.nodes[i].bind = Null THEN "static"
                             ELSE "{{" \o body.nodes[i].bind \o "}}"]]]

\* prisma.template.upsert of generateTemplateFromFigma.
upsert(existing, config, html, isVariant2) ==
    IF existing.exists
    THEN [existing EXCEPT !.name = config.name, !.width = config.width,
                          !.height = config.height, !.configJson = config,
                          !.htmlContent = IF isVariant2 THEN @ ELSE html,
                          !.htmlVariant2 = IF isVariant2 THEN html ELSE @]
    ELSE [exists |-> TRUE, name |-> config.name, width |-> config.width,
          height |-> config.height, configJson |-> config,
          htmlContent |-> html, htmlVariant2 |-> NoHtml]

\* The store after generateTemplateFromFigma(body): <<db, files>>.
generateTemplateFromFigma(body, dbDown) ==
    LET templateId == templateIdOf(body.name)
        html == generateHTMLTemplate(body)
        existing == db[templateId]
        isVariant2 == existing.exists /\ existing.htmlContent.present
                        /\ ~existing.htmlVariant2.present
        config == IF ~dbDown /\ isVariant2
                  THEN [generateConfig(body) EXCEPT !.variants = <<"1", "2">>]
                  ELSE generateConfig(body)
    IN  IF dbDown
        THEN <<db, [files EXCEPT ![templateId] =
                        [exists |-> TRUE, config |-> config, html |-> html]]>>
        ELSE <<[db EXCEPT ![templateId] = upsert(existing, config, html, isVariant2)], files>>

Authorized(r) == r.session = "staff" \/ (r.dev /\ r.session = "outsider")

ValidExport(body) ==
    body.name # "" /\ body.width # 0 /\ body.height # 0 /\ body.isArray

\* A client sends an export to the import route.
ReceiveImport ==
    /\ ~req.pending
    /\ \E session \in Sessions, dev \in BOOLEAN, body \in ExportBodies, dbDown \in BOOLEAN :
          /\ body.isArray \/ body.nodes = <<>>
          /\ req' = [pending |-> TRUE, session |-> session, dev |-> dev, body |-> body,
                     dbDown |-> dbDown]
    /\ UNCHANGED <<db, files, configCache, resp>>
    /\ UNCHANGED notImport

\* The route handler, from the session check to the response.
POST ==
    /\ req.pending
    /\ req' = NoRequest
    /\ IF ~Authorized(req)
       THEN /\ resp' = [status |-> 401, templateId |-> ""]
            /\ UNCHANGED <<db, files, configCache>>
       ELSE IF ~ValidExport(req.body)
       THEN /\ resp' = [status |-> 400, templateId |-> ""]
            /\ UNCHANGED <<db, files, configCache>>
       ELSE IF Throws(req.body)
       THEN /\ resp' = [status |-> 500, templateId |-> ""]
            /\ UNCHANGED <<db, files, configCache>>
       ELSE LET templateId == templateIdOf(req.body.name)
                stored == generateTemplateFromFigma(req.body, req.dbDown)
            IN  /\ db' = stored[1]
                /\ files' = stored[2]
                /\ configCache' = [configCache EXCEPT ![templateId] = NoConfig]
                /\ resp' = [status |-> 200, templateId |-> templateId]
    /\ UNCHANGED notImport

\* The template registry reads a family's config.json, through its cache.
getTemplateConfig(family) ==
    /\ ~req.pending
    /\ ~configCache[family].exists
    /\ files[family].exists
    /\ configCache' = [configCache EXCEPT ![family] = files[family].config]
    /\ UNCHANGED <<db, files, req, resp>>
    /\ UNCHANGED notImport

getTemplateConfigCall == \E family \in Families : getTemplateConfig(family)

NextImport == ReceiveImport \/ POST \/ getTemplateConfigCall

(***************************************************************************)
(* Markup adapter (html-to-layout-converter-v3).  A template document is   *)
(* the parse5 tree below <body>: a root container div with its declared    *)
(* size, and child nodes kept by tag, display style, text value or         *)
(* src/href, and children.                                                 *)
(***************************************************************************)
DomNode(tag, display, value, kids) ==
    [tag |-> tag, display |-> display, value |-> value, kids |-> kids]
TextN(value) == DomNode("#text", Null, value, <<>>)
Comment == DomNode("#comment", Null, Null, <<>>)
Img(src) == DomNode("img", Null, src, <<>>)
Svg(href) == DomNode("svg", Null, href, <<>>)
Div(display, kids) == DomNode("div", display, Null, kids)
Span(kids) == DomNode("span", Null, Null, kids)

\* value.trim() is empty.
Blank(value) == value \in {Null, "", " "}

\* A schema node: leaves have no children, unbound nodes the binding Null,
\* and only text nodes a content.
SchemaNode(id, type, binding, children) ==
    [id |-> id, type |-> type, content |-> Null, binding |-> binding, children |-> children]

\* Mutant: the counter's value is left out of the id.
nodeIdFixed(prefix, counter) == prefix \o "-0"

\* `${prefix}-${globalNodeIdCounter++}`: the id built from the counter's value.
nodeId(prefix, counter) == prefix \o "-" \o ToString(counter)

\* getElementTextContent: the values of the #text nodes below an element, in order.
RECURSIVE getElementTextContent(_)
RECURSIVE textContentFrom(_, _)
textContentFrom(kids, i) ==
    IF i > Len(kids) THEN <<>>
    ELSE getElementTextContent(kids[i]) \o textContentFrom(kids, i + 1)

getElementTextContent(element) ==
    IF element.tag = "#text" THEN <<element.value>>
    ELSE textContentFrom(element.kids, 1)

\* textContent.trim() is not empty.
HasText(element) ==
    LET text == getElementTextContent(element) IN \E i \in 1..Len(text) : ~Blank(text[i])

\* The texts the stock templates show, and what the adapter's string tests
\* say of them.  content.includes(part): the substrings that matter.
Substrings ==
    { <<"Doors open @ 6:00PM", "Doors open">>, <<"Doors open @ 6:00PM", "@">>,
      <<"CTO @ Botpress", "@">>, <<"400 Blvd. De Maisonneuve Ouest", "Blvd">>,
      <<"Kubernetes: the right way to run K8s", ":">>, <<"Doors open @ 6:00PM", ":">> }

Includes(text, part) == text = part \/ <<text, part>> \in Substrings

\* /\w+day,\s*\w+\s+\d+/
MatchesDate(content) == content \in {"Thursday, November 20"}
\* /[A-Z][a-z]+,\s*[A-Z]{2}\s+[A-Z0-9\s]+/
MatchesCity(content) == content \in {"Montreal, QC  H3A 1L4"}
\* /^[A-Z][a-z]+\s+[A-Z][a-z]+$/
MatchesName(content) == content \in {"John Doe", "Placeholder Text", "Jane Roe"}

\* The fallback heuristics on a text node's content, in the order of the code.
heuristicBinding(content) ==
    IF Includes(content, "Placeholder Text") THEN "eventTitle"
    ELSE IF MatchesDate(content) THEN "eventDate"
    ELSE IF Includes(content, "Doors open") \/ Includes(content, "Ouverture") THEN "doorTime"
    ELSE IF Includes(content, "Blvd") \/ Includes(content, "Bd") THEN "addressLine"
    ELSE IF MatchesCity(content) THEN "cityLine"
    ELSE IF Includes(content, "@") THEN "people[0].role"
    ELSE IF MatchesName(content) THEN "people[0].name"
    ELSE IF Len(content) > 20 /\ ~Includes(content, ":") THEN "people[0].talkTitle"
    ELSE Null

\* findTextBinding: the config's replacement patterns are looked up in the
\* parent's text when there is one, else in the content; then the heuristics
\* on the content.  The parent's text is held as the values of its #text
\* nodes; a pattern is found in it when one of them includes the pattern.
findTextBinding(content, parentTextContent) ==
    LET useParent == \E i \in 1..Len(parentTextContent) : ~Blank(parentTextContent[i])
        textToCheck == IF useParent THEN parentTextContent ELSE <<content>>
        hits == { k \in 1..Len(ConfigFields) :
                    \E i \in 1..Len(textToCheck) :
                        Includes(textToCheck[i], ConfigFields[k].pattern) }
        peopleHits == { k \in 1..Len(PersonFields) :
                    \E i \in 1..Len(textToCheck) :
                        Includes(textToCheck[i], PersonFields[k].pattern) }
    IN  IF hits # {}
        THEN ConfigFields[CHOOSE k \in hits : \A j \in hits : k <= j].name
        ELSE IF peopleHits # {}
        THEN "people[0]." \o PersonFields[CHOOSE k \in peopleHits : \A j \in peopleHits : k <= j].name
        ELSE heuristicBinding(content)

\* extractTextNodes: one text node per non-blank #text below a span or div;
\* the result carries the nodes and the counter after them.
RECURSIVE extractTextNodes(_, _)
RECURSIVE extractTextFrom(_, _, _)
extractTextFrom(kids, i, counter) ==
    IF i > Len(kids) THEN [nodes |-> <<>>, counter |-> counter]
    ELSE LET first == extractTextNodes(kids[i], counter)
             rest == extractTextFrom(kids, i + 1, first.counter)
         IN  [nodes |-> first.nodes \o rest.nodes, counter |-> rest.counter]

extractTextNodes(node, counter) ==
    IF node.tag = "#text"
    THEN IF Blank(node.value) THEN [nodes |-> <<>>, counter |-> counter]
         ELSE [nodes |-> <<[SchemaNode(nodeId("text", counter), "text", Null, <<>>)
                                EXCEPT !.content = node.value]>>,
               counter |-> counter + 1]
    ELSE IF node.tag \in {"span", "div"}
    THEN extractTextFrom(node.kids, 1, counter)
    ELSE [nodes |-> <<>>, counter |-> counter]

\* The text nodes of an element with their bindings looked up.
boundTextNodes(element, counter) ==
    LET found == extractTextNodes(element, counter)
        parentTextContent == getElementTextContent(element)
    IN  [nodes |-> [i \in 1..Len(found.nodes) |->
                        [found.nodes[i] EXCEPT
                            !.binding = findTextBinding(found.nodes[i].content,
                                                        parentTextContent)]],
         counter |-> found.counter]

hasBlockChildren(div) ==
    \E i \in 1..Len(div.kids) : div.kids[i].tag \in {"div", "img", "svg", "p"}

hasDirectText(div) ==
    \E i \in 1..Len(div.kids) : div.kids[i].tag = "#text" /\ ~Blank(div.kids[i].value)

\* convertElementChildren: the schema nodes of an element's children, and the
\* counter after them.  A container takes its id after its children took theirs.
RECURSIVE convertElementChildren(_, _, _)
RECURSIVE convertChildrenFrom(_, _, _, _)
\* Mutant: only the display an element declares itself counts.
convertChildOwnDisplay(child, inheritedDisplay, counter) ==
    CASE child.tag = "div" ->
            LET display == child.display
                type == IF display = "flex" THEN "flex" ELSE "box"
            IN  IF ~hasBlockChildren(child) /\ display # "flex" /\ HasText(child)
                THEN boundTextNodes(child, counter)
                ELSE LET texts == IF hasDirectText(child) THEN boundTextNodes(child, counter)
                                  ELSE [nodes |-> <<>>, counter |-> counter]
                         others == convertElementChildren(child, display, texts.counter)
                     IN  [nodes |-> <<SchemaNode(nodeId(type, others.counter), type, Null,
                                                 texts.nodes \o others.nodes)>>,
                          counter |-> others.counter + 1]
      [] child.tag = "img" ->
            IF child.value = Null THEN [nodes |-> <<>>, counter |-> counter]
            ELSE [nodes |-> <<SchemaNode(nodeId("image", counter), "image",
                                         IF child.value = "assets/mtl-code-wide.svg"
                                         THEN "logo" ELSE Null, <<>>)>>,
                  counter |-> counter + 1]
      [] child.tag = "svg" ->
            [nodes |-> <<SchemaNode(nodeId("svg", counter), "svg",
                                    IF child.value = HeadshotPattern
                                    THEN "people[0].headshot" ELSE Null, <<>>)>>,
             counter |-> counter + 1]
      [] child.tag \in {"span", "p"} -> boundTextNodes(child, counter)
      [] OTHER -> [nodes |-> <<>>, counter |-> counter]

\* One child of an element: a div becomes its text nodes or a container, an
\* image or vector element a leaf, a span or p its text nodes.  A div's styles
\* are its parent's overlaid with its own, display included.
convertChild(child, inheritedDisplay, counter) ==
    CASE child.tag = "div" ->
            LET display == IF child.display # Null THEN child.display ELSE inheritedDisplay
                type == IF display = "flex" THEN "flex" ELSE "box"
            IN  IF ~hasBlockChildren(child) /\ display # "flex" /\ HasText(child)
                THEN boundTextNodes(child, counter)
                ELSE LET texts == IF hasDirectText(child) THEN boundTextNodes(child, counter)
                                  ELSE [nodes |-> <<>>, counter |-> counter]
                         others == convertElementChildren(child, display, texts.counter)
                     IN  [nodes |-> <<SchemaNode(nodeId(type, others.counter), type, Null,
                                                 texts.nodes \o others.nodes)>>,
                          counter |-> others.counter + 1]
      [] child.tag = "img" ->
            IF child.value = Null THEN [nodes |-> <<>>, counter |-> counter]
            ELSE [nodes |-> <<SchemaNode(nodeId("image", counter), "image",
                                         IF child.value = "assets/mtl-code-wide.svg"
                                         THEN "logo" ELSE Null, <<>>)>>,
                  counter |-> counter + 1]
      [] child.tag = "svg" ->
            [nodes |-> <<SchemaNode(nodeId("svg", counter), "svg",
                                    IF child.value = HeadshotPattern
                                    THEN "people[0].headshot" ELSE Null, <<>>)>>,
             counter |-> counter + 1]
      [] child.tag \in {"span", "p"} -> boundTextNodes(child, counter)
      [] OTHER -> [nodes |-> <<>>, counter |-> counter]

convertChildrenFrom(kids, i, inheritedDisplay, counter) ==
    IF i > Len(kids) THEN [nodes |-> <<>>, counter |-> counter]
    ELSE LET first == convertChild(kids[i], inheritedDisplay, counter)
             rest == convertChildrenFrom(kids, i + 1, inheritedDisplay, first.counter)
         IN  [nodes |-> first.nodes \o rest.nodes, counter |-> rest.counter]

convertElementChildren(element, inheritedDisplay, counter) ==
    convertChildrenFrom(element.kids, 1, inheritedDisplay, counter)

\* createBindingsFromTree: one entry per node that carries a binding, in pre-order.
RECURSIVE createBindingsFromTree(_)
RECURSIVE bindingsFrom(_, _)
bindingsFrom(children, i) ==
    IF i > Len(children) THEN <<>>
    ELSE createBindingsFromTree(children[i]) \o bindingsFrom(children, i + 1)

\* node.binding.type: findTextBinding gives text nodes a binding of type
\* "text", the bindings put on image and svg nodes are of type "image".
bindingType(node) == IF node.type = "text" THEN "text" ELSE "image"

BindingEntry(node) ==
    [nodeId |-> node.id, field |-> node.binding, type |-> bindingType(node)]

\* Mutant: the traversal stops at the node it is given.
createBindingsNoDescent(node) ==
    IF node.binding # Null THEN <<BindingEntry(node)>> ELSE <<>>

createBindingsFromTree(node) ==
    (IF node.binding # Null THEN <<BindingEntry(node)>> ELSE <<>>)
        \o bindingsFrom(node.children, 1)

NoSchema == [exists |-> FALSE]

\* findRootContainer: the root container declares 1080 x 1350.
findRootContainer(document) == document.width = 1080 /\ document.height = 1350

\* What convertHTMLToLayoutNodes builds once the template file is read, from
\* the counter's value at that moment: the schema and the counter afterwards.
\* The schema's dimensions are the config's.
buildLayoutSchema(document, config, counter) ==
    IF ~findRootContainer(document) THEN [schema |-> NoSchema, counter |-> counter]
    ELSE LET children == convertElementChildren(document, Null, counter)
             frame == SchemaNode("root", "frame", Null, children.nodes)
         IN  [schema |-> [exists |-> TRUE, converter |-> "v3", root |-> frame,
                          dimensions |-> config,
                          variants |-> <<>>, bindings |-> createBindingsFromTree(frame)],
              counter |-> children.counter]

(***************************************************************************)
(* The regular-expression converter (html-to-layout-converter-v2) works on  *)
(* the markup text: a document is read as its sequence of tags and texts.  *)
(***************************************************************************)
MarkupToken(t, tag, value) == [t |-> t, tag |-> tag, value |-> value]

RECURSIVE serialize(_)
RECURSIVE serializeFrom(_, _)
serializeFrom(kids, i) ==
    IF i > Len(kids) THEN <<>> ELSE serialize(kids[i]) \o serializeFrom(kids, i + 1)

serialize(node) ==
    CASE node.tag = "#text" -> <<MarkupToken("text", node.tag, node.value)>>
      [] node.tag = "#comment" -> <<MarkupToken("comment", node.tag, Null)>>
      [] node.tag \in {"img", "svg"} -> <<MarkupToken(node.tag, node.tag, node.value)>>
      [] OTHER -> <<MarkupToken("open", node.tag, node.display)>>
                    \o serializeFrom(node.kids, 1)
                    \o <<MarkupToken("close", node.tag, Null)>>

IsCloseDiv(token) == token.t = "close" /\ token.tag = "div"

\* The first group of /<div[^>]*style="..."[^>]*>([\s\S]*?)<\/div>/ on the body:
\* what follows the root container's tag, up to the first </div>.
rootContent(document) ==
    LET all == serializeFrom(document.kids, 1) \o <<MarkupToken("close", "div", Null)>>
        end == CHOOSE j \in 1..Len(all) :
                    IsCloseDiv(all[j]) /\ \A k \in 1..(j - 1) : ~IsCloseDiv(all[k])
    IN  SubSeq(all, 1, end - 1)

\* findTextBinding of the regular-expression converter: heuristics only,
\* and no test for a person's name.
findTextBindingV2(content) ==
    IF Includes(content, "Placeholder Text") THEN "eventTitle"
    ELSE IF MatchesDate(content) THEN "eventDate"
    ELSE IF Includes(content, "Doors open") \/ Includes(content, "Ouverture") THEN "doorTime"
    ELSE IF Includes(content, "Blvd") \/ Includes(content, "Bd") THEN "addressLine"
    ELSE IF MatchesCity(content) THEN "cityLine"
    ELSE IF Includes(content, "@") THEN "people[0].role"
    ELSE IF Len(content) > 20 /\ ~Includes(content, ":") THEN "people[0].talkTitle"
    ELSE Null

\* parseHTMLStructure: every call counts its nodes from 0 in a counter of its own.
RECURSIVE parseHTMLStructure(_)
RECURSIVE parseFrom(_, _, _)
parseFrom(html, i, nodeIdCounter) ==
    IF i > Len(html) THEN <<>>
    ELSE LET token == html[i]
             closes == {j \in (i + 1)..Len(html) : IsCloseDiv(html[j])}
         IN  IF token.t = "open" /\ token.tag = "div" /\ closes # {}
             THEN LET j == CHOOSE c \in closes : \A d \in closes : c <= d
                      type == IF token.value = "flex" THEN "flex" ELSE "box"
                  IN  <<SchemaNode(nodeId(type, nodeIdCounter), type, Null,
                                   parseHTMLStructure(SubSeq(html, i + 1, j - 1)))>>
                        \o parseFrom(html, j + 1, nodeIdCounter + 1)
             ELSE IF token.t = "img" /\ token.value # Null
             THEN <<SchemaNode(nodeId("image", nodeIdCounter), "image",
                               IF token.value = "assets/mtl-code-wide.svg" THEN "logo" ELSE Null,
                               <<>>)>>
                        \o parseFrom(html, i + 1, nodeIdCounter + 1)
             ELSE IF token.t = "svg"
             THEN <<SchemaNode(nodeId("svg", nodeIdCounter), "svg",
                               IF token.value = HeadshotPattern THEN "people[0].headshot"
                               ELSE Null, <<>>)>>
                        \o parseFrom(html, i + 1, nodeIdCounter + 1)
             ELSE IF /\ token.t = "open" /\ token.tag \in {"span", "div"}
                     /\ i + 2 <= Len(html)
                     /\ html[i + 1].t = "text"
                     /\ html[i + 2].t = "close" /\ html[i + 2].tag \in {"span", "div"}
             THEN IF Blank(html[i + 1].value) THEN parseFrom(html, i + 3, nodeIdCounter)
                  ELSE <<[SchemaNode(nodeId("text", nodeIdCounter), "text",
                                     findTextBindingV2(html[i + 1].value), <<>>)
                            EXCEPT !.content = html[i + 1].value]>>
                        \o parseFrom(html, i + 3, nodeIdCounter + 1)
             ELSE parseFrom(html, i + 1, nodeIdCounter)

parseHTMLStructure(html) ==
    parseFrom(SelectSeq(html, LAMBDA token : token.t # "comment"), 1, 0)

convertHTMLToLayoutNodesV2(document) ==
    LET frame == SchemaNode("root", "frame", Null, parseHTMLStructure(rootContent(document)))
    IN  [exists |-> TRUE, converter |-> "v2", root |-> frame, variants |-> <<>>,
         bindings |-> createBindingsFromTree(frame)]

(***************************************************************************)
(* The fixed-layout converter (convertMTLCodeTemplate): its nodes carry     *)
(* fixed ids and are present according to what the template shows; of the  *)
(* optional nodes the logo, the event title and the speaker photo are kept. *)
(***************************************************************************)
TemplateContents == [logo : BOOLEAN, title : BOOLEAN, photo : BOOLEAN]

convertMTLCodeTemplate(html) ==
    LET nodes ==
            <<SchemaNode("background", "shape", Null, <<>>)>>
            \o (IF html.logo THEN <<SchemaNode("logo", "image", "logo", <<>>)>> ELSE <<>>)
            \o (IF html.title
                THEN <<[SchemaNode("event-title", "text", "eventTitle", <<>>)
                            EXCEPT !.content = "Placeholder Text"]>>
                ELSE <<>>)
            \o <<SchemaNode("date-bg", "shape", Null, <<>>),
                 SchemaNode("speaker-bg", "shape", Null, <<>>)>>
            \o (IF html.photo
                THEN <<SchemaNode("speaker-photo", "image", "people[0].headshot", <<>>)>>
                ELSE <<>>)
        bound == SelectSeq(nodes, LAMBDA n : n.type \in {"text", "image"} /\ n.binding # Null)
    IN  [exists |-> TRUE, converter |-> "v1", nodes |-> nodes, variants |-> <<>>,
         bindings |-> [i \in 1..Len(bound) |->
                            [nodeId |-> bound[i].id, field |-> bound[i].binding,
                             type |-> bound[i].type]]]

(***************************************************************************)
(* Template documents: up to MaxTop elements under the root container.     *)
(***************************************************************************)
Elements ==
    { Div("flex", <<Img("assets/mtl-code-wide.svg"),
                    Div(Null, <<TextN("Doors open @ 6:00PM")>>),
                    Span(<<TextN("Placeholder Text")>>),
                    Span(<<TextN("Hosted by")>>)>>),
      Div("flex", <<TextN("Thursday, November 20"), Img(Null),
                    Div("block", <<Svg(HeadshotPattern),
                                   Div(Null, <<Comment, Span(<<TextN("John Doe")>>),
                                               TextN("CTO @ Botpress")>>),
                                   Div("flex", <<TextN("Jane Roe")>>),
                                   Div(Null, <<TextN(" ")>>)>>)>>) }

Documents ==
    { [width |-> 1080, height |-> 1350, kids |-> kids] : kids \in SeqsUpTo(Elements, MaxTop) }
        \cup { [width |-> 1080, height |-> 1080, kids |-> <<Img("assets/mtl-code-wide.svg")>>] }

\* config.width and config.height of the template being converted.
Configs == { [width |-> 1080, height |-> 1350], [width |-> 1080, height |-> 1080] }

NoDocument == [width |-> 0, height |-> 0, kids |-> <<>>]
NoCall == [converter |-> "none", document |-> NoDocument, config |-> [width |-> 0, height |-> 0]]

\* convertHTMLToLayoutNodes up to its await: the counter is reset and the
\* template file is being read.
StartConvert ==
    /\ inFlight < MaxInFlight
    /\ globalNodeIdCounter' = 0
    /\ inFlight' = inFlight + 1
    /\ UNCHANGED <<lastSchema, lastCall>>
    /\ UNCHANGED notAdapter

\* convertHTMLToLayoutNodes after its await: the document is converted in one
\* synchronous run from whatever the counter holds.
FinishConvert(document, config) ==
    LET built == buildLayoutSchema(document, config, globalNodeIdCounter) IN
    /\ inFlight > 0
    /\ inFlight' = inFlight - 1
    /\ globalNodeIdCounter' = built.counter
    /\ lastSchema' = built.schema
    /\ lastCall' = [converter |-> "v3", document |-> document, config |-> config]
    /\ UNCHANGED notAdapter

FinishConvertCall ==
    /\ inFlight > 0
    /\ \E document \in Documents, config \in Configs : FinishConvert(document, config)

\* The regular-expression converter and the fixed-layout converter keep no
\* state between calls.  They are run by a script in a process of its own
\* (convert-template), in which the markup adapter has converted nothing.
FreshProcess == inFlight = 0 /\ globalNodeIdCounter = 0 /\ ~lastSchema.exists

ConvertV2(document) ==
    /\ FreshProcess
    /\ lastSchema' = convertHTMLToLayoutNodesV2(document)
    /\ lastCall' = [NoCall EXCEPT !.converter = "v2", !.document = document]
    /\ UNCHANGED <<globalNodeIdCounter, inFlight>>
    /\ UNCHANGED notAdapter

ConvertV2Call == FreshProcess /\ \E document \in Documents : ConvertV2(document)

ConvertFixed(html) ==
    /\ FreshProcess
    /\ lastSchema' = convertMTLCodeTemplate(html)
    /\ lastCall' = [NoCall EXCEPT !.converter = "v1"]
    /\ UNCHANGED <<globalNodeIdCounter, inFlight>>
    /\ UNCHANGED notAdapter

ConvertFixedCall == FreshProcess /\ \E html \in TemplateContents : ConvertFixed(html)

NextAdapter == StartConvert \/ FinishConvertCall \/ ConvertV2Call \/ ConvertFixedCall

(***************************************************************************)
(* Variant schemas and the unified schema.  convert-template writes        *)
(* schema-<i>.json with convertMTLCodeTemplate, whose nodes carry fixed    *)
(* ids and are present according to what the variant's template shows (of *)
(* the optional nodes the logo, the event title and the speaker photo are  *)
(* kept); create-unified-schema merges the variant schemas.                *)
(***************************************************************************)
NumVariants == 3

\* schema.root?.children || schema.nodes || []
TopLevelNodes(schema) ==
    IF "root" \in DOMAIN schema THEN schema.root.children ELSE schema.nodes

TopLevelIds(schema) ==
    [i \in 1..Len(TopLevelNodes(schema)) |-> TopLevelNodes(schema)[i].id]

InSeq(x, seq) == \E i \in 1..Len(seq) : seq[i] = x

\* The overrides of one variant against the base: hide what only the base
\* has, then show what only the variant has.
variantOverrides(baseSchema, variantSchema) ==
    LET baseNodeIds == TopLevelIds(baseSchema)
        variantNodeIds == TopLevelIds(variantSchema)
        hidden == SelectSeq(baseNodeIds, LAMBDA id : ~InSeq(id, variantNodeIds))
        shown == SelectSeq(variantNodeIds, LAMBDA id : ~InSeq(id, baseNodeIds))
    IN  [i \in 1..Len(hidden) |-> [nodeId |-> hidden[i], operation |-> "hide"]]
            \o [i \in 1..Len(shown) |-> [nodeId |-> shown[i], operation |-> "show"]]

\* The variant definitions for the loaded schemas from position i on (the
\* first loaded schema is the base); a variant without overrides is left out.
RECURSIVE variantDefsFrom(_, _)
variantDefsFrom(loaded, i) ==
    IF i > Len(loaded) THEN <<>>
    ELSE LET overrides == variantOverrides(loaded[1], loaded[i]) IN
         (IF overrides # <<>>
          THEN <<[id |-> ToString(i), overrides |-> overrides]>>
          ELSE <<>>)
            \o variantDefsFrom(loaded, i + 1)

\* createUnifiedSchema: the schema written to schema.json for the schema
\* files found, NoSchema when there is none.
createUnifiedSchema(found) ==
    LET present == SelectSeq([i \in 1..NumVariants |-> i], LAMBDA i : found[i].exists)
        loaded == [k \in 1..Len(present) |-> found[present[k]]]
    IN  IF loaded = <<>> THEN NoSchema
        ELSE [loaded[1] EXCEPT !.variants = variantDefsFrom(loaded, 2)]

\* One run of the conversion pipeline for a family: the variants' templates
\* are converted, then the unified schema is written.
ConvertTemplate(i, html) ==
    /\ ~unified.exists
    /\ schemaFiles' = [schemaFiles EXCEPT ![i] = convertMTLCodeTemplate(html)]
    /\ UNCHANGED unified
    /\ UNCHANGED notUnify

ConvertTemplateCall ==
    /\ ~unified.exists
    /\ \E i \in 1..NumVariants, html \in TemplateContents : ConvertTemplate(i, html)

CreateUnifiedSchema ==
    /\ ~unified.exists
    /\ \E i \in 1..NumVariants : schemaFiles[i].exists
    /\ unified' = createUnifiedSchema(schemaFiles)
    /\ UNCHANGED schemaFiles
    /\ UNCHANGED notUnify

NextUnify == ConvertTemplateCall \/ CreateUnifiedSchema

(***************************************************************************)
(* raw-figma-to-import: normalising a raw design frame into the import      *)
(* format.  Lengths are whole thousandths of a pixel, so that the script's  *)
(* rounding to two decimals is a rounding to the nearest ten.               *)
(***************************************************************************)
NoBox == [present |-> FALSE, x |-> 0, y |-> 0, width |-> 0, height |-> 0]
Box(x, y, width, height) ==
    [present |-> TRUE, x |-> x, y |-> y, width |-> width, height |-> height]

RawNode(id, box, children) == [id |-> id, absoluteBoundingBox |-> box, children |-> children]

getBox(node) == node.absoluteBoundingBox

RECURSIVE collectBounds(_)
RECURSIVE collectBoundsFrom(_, _)
collectBoundsFrom(children, i) ==
    IF i > Len(children) THEN {}
    ELSE collectBounds(children[i]) \cup collectBoundsFrom(children, i + 1)

collectBounds(node) ==
    (IF getBox(node).present THEN {getBox(node)} ELSE {})
    \cup collectBoundsFrom(node.children, 1)

\* Math.round(v * 100) / 100 on thousandths: halves go up.
round2(v) == ((v + 5) \div 10) * 10

Min(S) == CHOOSE v \in S : \A w \in S : v <= w
Max(S) == CHOOSE v \in S : \A w \in S : v >= w

RECURSIVE mapNode(_, _, _)
mapNode(node, originX, originY) ==
    LET box == getBox(node)
    IN  [id |-> node.id,
         x |-> round2(IF box.present THEN box.x - originX ELSE 0),
         y |-> round2(IF box.present THEN box.y - originY ELSE 0),
         width |-> round2(IF box.present THEN box.width ELSE 0),
         height |-> round2(IF box.present THEN box.height ELSE 0),
         children |-> [i \in 1..Len(node.children) |->
                          mapNode(node.children[i], originX, originY)]]

NoExport == [written |-> FALSE]

\* The export main writes for a raw frame; nothing when no node has a box.
exportOf(frame) ==
    LET bounds == collectBounds(frame)
    IN  IF bounds = {} THEN NoExport
        ELSE LET minX == Min({b.x : b \in bounds})
                 minY == Min({b.y : b \in bounds})
                 maxX == Max({b.x + b.width : b \in bounds})
                 maxY == Max({b.y + b.height : b \in bounds})
             IN  [written |-> TRUE,
                  width |-> round2(maxX - minX),
                  height |-> round2(maxY - minY),
                  nodes |-> <<mapNode(frame, minX, minY)>>]

\* Absolute boxes a design tool reports: the frame sits away from the page
\* origin, a layer may lie inside it, hang over its left or top edge, or be
\* placed on a fraction of a pixel.
FrameBoxes == {NoBox, Box(10000, 20000, 1080000, 1350000), Box(0, 0, 1080000, 1350000)}
LayerBoxes ==
    {NoBox, Box(10000, 20000, 500000, 500000), Box(60000, 80000, 100000, 100000),
     Box(60004, 80005, 100000, 100000), Box(5000, 30000, 100000, 100000),
     Box(40000, 15000, 100000, 100000)}

\* Raw frames: a frame with one layer, which may hold one nested layer.
RawFrames ==
    { RawNode("0:1", f, <<RawNode("1:1", a, <<>>)>>) : f \in FrameBoxes, a \in LayerBoxes }
    \cup
    { RawNode("0:1", f, <<RawNode("1:1", a, <<RawNode("1:2", b, <<>>)>>)>>) :
        f \in FrameBoxes, a \in LayerBoxes, b \in LayerBoxes }

NoRaw == RawNode(Null, NoBox, <<>>)

main(frame) ==
    /\ raw = NoRaw
    /\ raw' = frame
    /\ exportFile' = exportOf(frame)
    /\ UNCHANGED notNormalize

mainCall == \E frame \in RawFrames : main(frame)

NextNormalize == mainCall

(***************************************************************************)
(* The server's registries: getTemplateConfig with its configCache,        *)
(* getNodeTemplateSchema with its schemaCache, and renderTemplateWithConfig *)
(* reading the config through the cache and the template from the database *)
(* or the filesystem.                                                      *)
(***************************************************************************)
\* The config getTemplateConfig(family) would return were config.json read
\* only by the call that fills the cache.
configOfCacheOnly(cache, fs, family) == cache[family]

\* The config getTemplateConfig(family) returns.
configOf(cache, fs, family) ==
    IF cache[family].exists THEN cache[family]
    ELSE IF ~fs[family].exists THEN NoConfig
    ELSE fs[family].config

\* The configCache a getTemplateConfig(family) call leaves, were every entry
\* stored without its fields.
cacheAfterDroppingFields(cache, fs, family) ==
    IF cache[family].exists \/ ~fs[family].exists THEN cache
    ELSE [cache EXCEPT ![family] = [fs[family].config EXCEPT !.fields = {}]]

\* The configCache a getTemplateConfig(family) call leaves.
cacheAfter(cache, fs, family) ==
    IF cache[family].exists \/ ~fs[family].exists THEN cache
    ELSE [cache EXCEPT ![family] = fs[family].config]

\* cacheKey: the template id alone, or the template id with a variant id.
NoVariant == 0
CacheKeys == 0..NumVariants

\* The schema getNodeTemplateSchema(templateId, variantId) returns.
schemaOf(cache, variantFiles, schemaJson, variantId) ==
    IF cache[variantId].exists THEN cache[variantId]
    ELSE IF variantId # NoVariant /\ variantFiles[variantId].exists
    THEN variantFiles[variantId]
    ELSE schemaJson

\* The schemaCache that call leaves: a schema read from a file is stored
\* under the call's cache key.
schemaCacheAfter(cache, variantFiles, schemaJson, variantId) ==
    LET schema == schemaOf(cache, variantFiles, schemaJson, variantId)
    IN  IF schema.exists THEN [cache EXCEPT ![variantId] = schema] ELSE cache

NoLoad == [called |-> FALSE]
NoRender == [status |-> "none"]

getNodeTemplateSchema(variantId) ==
    /\ lastLoad' = [called |-> TRUE, variantId |-> variantId,
                  schema |-> schemaOf(schemaCache, schemaFiles, unified, variantId)]
    /\ schemaCache' = schemaCacheAfter(schemaCache, schemaFiles, unified, variantId)
    /\ UNCHANGED rendered
    /\ UNCHANGED <<importVars, unifyVars>>
    /\ UNCHANGED notRegistry

\* Lookups without a variant, for the converted variant and for one that
\* has no layout file of its own.
LookupVariants == {NoVariant, 1, 2}

getNodeTemplateSchemaCall ==
    \E variantId \in LookupVariants : getNodeTemplateSchema(variantId)

\* templateVariant.split("-").pop() || "1"
variantNumberOf(templateVariant) ==
    IF templateVariant = "event-poster-2" THEN "2"
    ELSE IF templateVariant = "event-poster-3" THEN "3"
    ELSE "1"

Submissions ==
    [templateFamily : Families,
     templateVariant : {"event-poster-1", "event-poster-2"},
     eventTitle : {Null, "Launch Night"}]

\* The template document of a variant: the database row first, then
\* templates/<family>/template-<n>.html; NoHtml when neither has it.
loadTemplate(family, variantNumber) ==
    LET template == db[family]
        fromDb == IF ~template.exists THEN NoHtml
                  ELSE IF variantNumber = "1" THEN template.htmlContent
                  ELSE IF variantNumber = "2" THEN template.htmlVariant2
                  ELSE NoHtml
    IN  IF fromDb.present THEN fromDb
        ELSE IF files[family].exists /\ variantNumber = "1" THEN files[family].html
        ELSE NoHtml

\* The stored document as the engine's tokens.
templateTokens(html) ==
    [i \in 1..Len(html.els) |-> Tok("text", html.els[i].content)]

\* What is stored for a family when a render reads it, and whether the
\* call repeats the last one: same submission, same stored template.
storedTemplate(family) == <<db[family], files[family]>>

SameAsLast(submission) ==
    /\ rendered.status # "none"
    /\ rendered.submission = submission
    /\ rendered.template = storedTemplate(submission.templateFamily)

\* One render call of the server: the config through the template
\* registry, the template from the store, then the engine's passes.
RenderSubmission(submission) ==
    LET family == submission.templateFamily
        config == configOf(configCache, files, family)
        html == loadTemplate(family, variantNumberOf(submission.templateVariant))
        values == [top |-> [NoValues EXCEPT !["eventTitle"] = submission.eventTitle],
                   fields |-> NoValues, images |-> [logo |-> Null],
                   people |-> <<>>, uploadUrls |-> <<>>]
    IN  /\ configCache' = cacheAfter(configCache, files, family)
        /\ rendered' = IF ~config.exists \/ ~html.present
                       THEN [status |-> "failed", submission |-> submission,
                             template |-> storedTemplate(family),
                             again |-> SameAsLast(submission), html |-> <<>>]
                       ELSE [status |-> "ok", submission |-> submission,
                             template |-> storedTemplate(family),
                             again |-> SameAsLast(submission),
                             html |-> renderTemplateWithConfig(templateTokens(html), values).html]
        /\ UNCHANGED <<db, files, req, resp>>
        /\ UNCHANGED <<schemaCache, lastLoad>>
        /\ UNCHANGED unifyVars
        /\ UNCHANGED notRegistry

RenderSubmissionCall ==
    \E submission \in Submissions : RenderSubmission(submission)

\* An authorised client sends a well-formed export to the import route.
ReimportBodies ==
    { body \in ExportBodies :
        /\ ValidExport(body) /\ ~Throws(body)
        /\ body.width = 1080
        /\ Len(body.nodes) \in {1, 2}
        /\ \A i, j \in 1..Len(body.nodes) : body.nodes[i].id = body.nodes[j].id => i = j }

ReceiveExport ==
    /\ ~req.pending
    /\ \E body \in ReimportBodies, dbDown \in BOOLEAN :
          req' = [pending |-> TRUE, session |-> "staff", dev |-> FALSE,
                  body |-> body, dbDown |-> dbDown]
    /\ UNCHANGED <<db, files, configCache, resp>>
    /\ UNCHANGED notImport

\* The conversion script run for the first variant, on one of two templates.
RegistryContents ==
    { [logo |-> TRUE, title |-> TRUE, photo |-> TRUE],
      [logo |-> FALSE, title |-> TRUE, photo |-> FALSE] }

ReconvertCall ==
    /\ ~unified.exists
    /\ \E html \in RegistryContents : ConvertTemplate(1, html)

\* No import or render step reads or writes the schema files or the
\* schemaCache, and no schema step the import store, so the two halves are
\* explored one at a time: each from the other's initial state.
ServerIdle ==
    /\ ~req.pending /\ resp = NoResponse /\ rendered = NoRender
    /\ \A f \in Families : ~db[f].exists /\ ~files[f].exists /\ ~configCache[f].exists

SchemasIdle ==
    /\ ~lastLoad.called /\ ~unified.exists
    /\ \A i \in 1..NumVariants : ~schemaFiles[i].exists

ServerStep ==
    /\ SchemasIdle
    /\ \/ ReceiveExport
       \/ POST
       \/ getTemplateConfigCall
       \/ RenderSubmissionCall

SchemaStep ==
    /\ ServerIdle
    /\ \/ getNodeTemplateSchemaCall
       \/ ReconvertCall
       \/ CreateUnifiedSchema

NextRegistry == ServerStep \/ SchemaStep

\* Canvas sizes a client may send: proper, negative, none.
CanvasSizes == {1080, -1080, 0}

CanvasBodies ==
    { [name |-> "Event Poster", width |-> w, height |-> h, isArray |-> TRUE,
       nodes |-> nodes] :
        w \in CanvasSizes, h \in CanvasSizes,
        nodes \in { <<ExportNode("1:1", "eventTitle")>>,
                    <<ExportNode("1:1", "eventTitle"), ExportNode("1:2", Null)>> } }

\* An authorised client sends an export of any canvas size.
ReceiveCanvas ==
    /\ ~req.pending
    /\ \E body \in CanvasBodies, dbDown \in BOOLEAN :
          req' = [pending |-> TRUE, session |-> "staff", dev |-> FALSE,
                  body |-> body, dbDown |-> dbDown]
    /\ UNCHANGED <<db, files, configCache, resp>>
    /\ UNCHANGED notImport

NextCanvas == ReceiveCanvas \/ POST

(***************************************************************************)
(* Variant resolver: applying a variant's overrides to the nodes of a      *)
(* schema.  An override names a node and hides or shows it; the overrides  *)
(* are applied in list order to nodes that start visible.                  *)
(***************************************************************************)
MaxOverrides == 3   \* overrides in a variant

VariantNodeIds == {"logo", "title", "photo"}

VariantOverrides == [nodeId : VariantNodeIds, operation : {"hide", "show"}]

\* The hidden flags after the overrides from position i on are applied.
RECURSIVE applyOverridesFrom(_, _, _)
applyOverridesFrom(hidden, overrides, i) ==
    IF i > Len(overrides) THEN hidden
    ELSE applyOverridesFrom(
            [hidden EXCEPT ![overrides[i].nodeId] = (overrides[i].operation = "hide")],
            overrides, i + 1)

\* The hidden flags were the overrides applied last to first, so that the
\* first override of a node decided.
applyVariantFirstWins(overrides) ==
    applyOverridesFrom([n \in VariantNodeIds |-> FALSE], Reverse(overrides), 1)

\* The hidden flags of the nodes once the variant is applied.
applyVariant(overrides) ==
    applyOverridesFrom([n \in VariantNodeIds |-> FALSE], overrides, 1)

ApplyVariant(overrides) ==
    /\ ~variantRun.applied
    /\ variantRun' = [applied |-> TRUE, overrides |-> overrides,
                      hidden |-> applyVariant(overrides)]
    /\ UNCHANGED notVariant

ApplyVariantCall ==
    /\ ~variantRun.applied
    /\ \E overrides \in SeqsUpTo(VariantOverrides, MaxOverrides) : ApplyVariant(overrides)

NextVariant == ApplyVariantCall

(***************************************************************************)
(* Colours of a render.  The template engine derives the lighter hue from  *)
(* the primary colour it resolved; the older renderTemplate also writes    *)
(* the submission's secondaryColor column into the document's style block. *)
(* A colour is its red, green and blue channels.                           *)
(***************************************************************************)
LightenPercent == 25    \* lightenColor(primaryColor, 25) of both renderers
StoredPercent == 15     \* lightenColor(primaryColor, 15) of the submit route

Colour(r, g, b) == [set |-> TRUE, r |-> r, g |-> g, b |-> b]
NoColour == [set |-> FALSE, r |-> 0, g |-> 0, b |-> 0]
DefaultPrimary == Colour(61, 157, 255)      \* #3D9DFF

\* Each channel moved towards white by the given percentage.
lightenColor(c, percent) ==
    Colour(c.r + ((255 - c.r) * percent) \div 100,
           c.g + ((255 - c.g) * percent) \div 100,
           c.b + ((255 - c.b) * percent) \div 100)

\* submission.primaryColor?.trim() || "#3D9DFF"
resolvePrimary(submission) ==
    IF submission.primaryColor.set THEN submission.primaryColor ELSE DefaultPrimary

\* The secondary colours the template engine writes: the lighter hue, for
\* the colours the config maps to secondaryColor.
engineSecondaries(submission, mapsSecondary) ==
    IF mapsSecondary THEN {lightenColor(resolvePrimary(submission), LightenPercent)} ELSE {}

\* The secondary colours renderTemplate writes: the lighter hue in place of
\* #B5DAFF, and the submission's column as --secondary.
legacySecondaries(submission, hasLighterHue) ==
    (IF hasLighterHue THEN {lightenColor(submission.primaryColor, LightenPercent)} ELSE {})
        \cup {submission.secondaryColor}

PrimaryColours ==
    { NoColour, DefaultPrimary, Colour(255, 0, 0), Colour(0, 0, 0),
      Colour(255, 255, 255), Colour(16, 128, 64) }

\* The secondaryColor column: what the submit route stored for the primary
\* colour chosen then, or for another one (the column outlives an edit).
StoredSecondaries(primary) ==
    { lightenColor(p, StoredPercent) : p \in (PrimaryColours \ {NoColour}) \cup {primary} }

RenderColours(renderer, submission, inTemplate) ==
    /\ palette.renderer = "none"
    /\ palette' = [renderer |-> renderer, submission |-> submission,
                   primary |-> IF renderer = "engine" THEN resolvePrimary(submission)
                               ELSE submission.primaryColor,
                   secondaries |-> IF renderer = "engine"
                                   THEN engineSecondaries(submission, inTemplate)
                                   ELSE legacySecondaries(submission, inTemplate)]
    /\ UNCHANGED notPalette

RenderColoursEngine ==
    /\ palette.renderer = "none"
    /\ \E primary \in PrimaryColours, inTemplate \in BOOLEAN :
          \E secondary \in StoredSecondaries(resolvePrimary([primaryColor |-> primary])) :
              RenderColours("engine",
                            [primaryColor |-> primary, secondaryColor |-> secondary],
                            inTemplate)

\* The older renderer is given a submission whose primary colour is set.
RenderColoursLegacy ==
    /\ palette.renderer = "none"
    /\ \E primary \in PrimaryColours \ {NoColour}, inTemplate \in BOOLEAN :
          \E secondary \in StoredSecondaries(primary) :
              RenderColours("legacy",
                            [primaryColor |-> primary, secondaryColor |-> secondary],
                            inTemplate)

NextPalette == RenderColoursEngine \/ RenderColoursLegacy

(***************************************************************************)
(* Assets and fonts of a render (renderTemplateWithConfig, first two       *)
(* passes).  A document token that names a file under assets/ reads        *)
(* "assets/<file>"; the stylesheet link reads FontLink.  The disk is the   *)
(* set of files present under public/assets and public/fonts.              *)
(***************************************************************************)
LogoFile == "mtl-code-wide.svg"
DecorationFile == "decoration.svg"
FontFaceCss == "font-face.css"
FontFile == "Inter.woff2"
AssetFiles == {LogoFile, DecorationFile, FontFaceCss, FontFile}

LogoRef == "assets/mtl-code-wide.svg"
DecorationRef == "assets/decoration.svg"
FontLink == "fonts/font-face.css"
\* font-face.css as read from disk, and after its url() is replaced.
FontFaceExternal == "@font-face url(Inter.woff2)"
FontFaceEmbedded == "@font-face url(data:font/woff2)"

\* The file a reference names; speaker-photo.png is the people placeholder.
assetFileOf(ref) ==
    CASE ref = LogoRef -> LogoFile
      [] ref = DecorationRef -> DecorationFile
      [] ref = HeadshotPattern -> "speaker-photo.png"
      [] OTHER -> Null

\* fileToDataUri: null when the file does not exist.
fileToDataUri(file, disk) ==
    IF file \notin disk THEN Null
    ELSE CASE file = LogoFile -> "data:image/svg+xml;logo"
           [] file = DecorationFile -> "data:image/svg+xml;decoration"
           [] OTHER -> "data:image/png"

AssetConfigs ==
    { [logo |-> l, decoration |-> d] : l \in {Null, LogoFile}, d \in {Null, DecorationFile} }

\* The decoration branch reads the file without checking that it exists.
assetsThrow(html, config, disk) ==
    \/ config.logo = Null
    \/ /\ config.decoration = DecorationFile
       /\ DecorationFile \notin disk
       /\ HasAttr(html, "src", DecorationRef)

\* One reference of the src loop or of the href loop.
embedAsset(tok, config, disk) ==
    LET assetFile == assetFileOf(tok.s) IN
    IF tok.kind \notin {"src", "href"} \/ assetFile = Null THEN tok
    ELSE IF assetFile = "speaker-photo.png" THEN tok
    ELSE IF tok.kind = "src" /\ assetFile = config.decoration
    THEN [tok EXCEPT !.s = "data:image/svg+xml;recoloured"]
    ELSE IF fileToDataUri(assetFile, disk) = Null THEN tok
    ELSE [tok EXCEPT !.s = fileToDataUri(assetFile, disk)]

processAssets(html, config, disk) ==
    [i \in 1..Len(html) |-> embedAsset(html[i], config, disk)]

\* processFonts: nothing without font-face.css; a font url is replaced only
\* when the font file exists; the first stylesheet link becomes a style block.
processFonts(html, disk) ==
    IF FontFaceCss \notin disk THEN html
    ELSE LET fontFaceCss == IF FontFile \in disk THEN FontFaceEmbedded
                            ELSE FontFaceExternal
             at == FirstIndex(html, FontLink) IN
         IF at = 0 THEN html
         ELSE [html EXCEPT ![at] = [kind |-> "style", s |-> fontFaceCss, by |-> @.by]]

\* renderTemplateWithConfig with its asset and font passes.
renderWithAssets(html, config, submission, disk) ==
    IF assetsThrow(html, config, disk)
    THEN [status |-> "failed", html |-> <<>>]
    ELSE [status |-> "ok",
          html |-> renderTemplateWithConfig(
                      processFonts(processAssets(html, config, disk), disk),
                      submission).html]

AssetTokens ==
    { Tok("src", LogoRef), Tok("src", DecorationRef), Tok("href", DecorationRef),
      Tok("src", HeadshotPattern), Tok("link", FontLink), Tok("text", "static") }

\* Submissions of the asset renders: nobody listed, or one person with a headshot.
AssetPeople == { <<>>, <<[name |-> PersonNames[1]]>> }

RenderAssets(template, config, people, disk) ==
    LET submission == [top |-> [NoValues EXCEPT !["primaryColor"] = DefaultColor],
                       fields |-> NoValues, images |-> [logo |-> Null],
                       people |-> people,
                       uploadUrls |-> [i \in 1..Len(people) |-> Headshots[i]]]
        result == renderWithAssets(template, config, submission, disk) IN
    /\ assetRun.status = "none"
    /\ assetRun' = [status |-> result.status, template |-> template,
                    config |-> config, people |-> people, disk |-> disk,
                    html |-> result.html]
    /\ UNCHANGED notAssets

RenderAssetsCall ==
    /\ assetRun.status = "none"
    /\ \E template \in SeqsUpTo(AssetTokens, MaxSlots), config \in AssetConfigs,
          people \in AssetPeople, disk \in SUBSET AssetFiles :
            RenderAssets(template, config, people, disk)

NextAssets == RenderAssetsCall

\* A token that still points outside the document.
ExternalReference(tok) ==
    tok.s \in {LogoRef, DecorationRef, HeadshotPattern, FontLink, FontFaceExternal}

\* C26: the markup handed to the renderer contains no external asset
\* reference: every font, decoration and bitmap the template references has
\* been replaced by inline embedded content.
C26_NoExternalReference ==
    assetRun.status = "ok" =>
        \A i \in 1..Len(assetRun.html) : ~ExternalReference(assetRun.html[i])

(***************************************************************************)
(* Format of a template family (node-registry.ts, getTemplateFormat and    *)
(* isNodeTemplate).  The family's directory holds any of                   *)
(* schema-layout-<v>.json, schema.json and template-1.html; the config is  *)
(* what getTemplateConfig returned.                                        *)
(***************************************************************************)
\* config?.format: no config at all, a config without the field, or a format.
ConfigFormats == {"no config", Null, "node", "html"}

FormatSet(configFormat) == configFormat \notin {"no config", Null}

FamilyDirs ==
    [layouts : SUBSET (1..NumVariants), schemaJson : BOOLEAN, template1 : BOOLEAN]

getTemplateFormat(configFormat, dir, variantId) ==
    IF FormatSet(configFormat) THEN configFormat
    ELSE IF variantId # NoVariant /\ variantId \in dir.layouts THEN "node"
    ELSE IF dir.schemaJson THEN "node"
    ELSE IF dir.template1 THEN "html"
    ELSE "html"

GetTemplateFormat(configFormat, dir, variantId) ==
    /\ ~formatCall.called
    /\ formatCall' = [called |-> TRUE, configFormat |-> configFormat, dir |-> dir,
                      variantId |-> variantId,
                      format |-> getTemplateFormat(configFormat, dir, variantId)]
    /\ UNCHANGED notFormat

GetTemplateFormatCall ==
    /\ ~formatCall.called
    /\ \E configFormat \in ConfigFormats, dir \in FamilyDirs, variantId \in 1..NumVariants :
          GetTemplateFormat(configFormat, dir, variantId)

\* isNodeTemplate asks for the family's format without naming a variant.
IsNodeTemplateCall ==
    /\ ~formatCall.called
    /\ \E configFormat \in ConfigFormats, dir \in FamilyDirs :
          GetTemplateFormat(configFormat, dir, NoVariant)

NextFormat == GetTemplateFormatCall \/ IsNodeTemplateCall

\* C27: the template format is the explicit format of the config whenever
\* one is set; otherwise it is 'node' if a variant layout schema or a unified
\* schema file exists; otherwise it is 'html'.
C27_FormatByConfigThenFiles ==
    formatCall.called =>
        formatCall.format =
            IF FormatSet(formatCall.configFormat) THEN formatCall.configFormat
            ELSE IF formatCall.dir.layouts # {} \/ formatCall.dir.schemaJson THEN "node"
            ELSE "html"

(***************************************************************************)
(* The storage endpoint (GET /storage/[...path], part_001) and the output  *)
(* files it serves.  The render route (part_005) writes each output to the *)
(* storage directory and, as a data URI, to the submission's outputs       *)
(* column; the directory is ephemeral and a file may disappear from it.    *)
(***************************************************************************)
Users == {"ann@example.com", "bob@example.com"}
Requesters == {Null} \cup Users
SubmissionIds == {"s1", "s2"}

NoSubmission == [exists |-> FALSE, ownerEmail |-> Null, onDisk |-> FALSE, dataUri |-> FALSE]
NoFileResponse == [status |-> 0, session |-> Null, submissionId |-> Null, from |-> "none"]

\* A submission is created by the signed-in user who submits the form.
CreateSubmission(submissionId, email) ==
    /\ ~storage.subs[submissionId].exists
    /\ storage' = [storage EXCEPT !.subs[submissionId] =
                      [exists |-> TRUE, ownerEmail |-> email,
                       onDisk |-> FALSE, dataUri |-> FALSE]]
    /\ UNCHANGED notStorage

\* The render route, called by the owner: the output is written to disk and
\* stored as a data URI in the submission's outputs.
StoreOutput(submissionId) ==
    /\ storage.subs[submissionId].exists
    /\ storage' = [storage EXCEPT !.subs[submissionId].onDisk = TRUE,
                                  !.subs[submissionId].dataUri = TRUE]
    /\ UNCHANGED notStorage

\* The ephemeral directory loses the file.
EvictFile(submissionId) ==
    /\ storage.subs[submissionId].onDisk
    /\ storage' = [storage EXCEPT !.subs[submissionId].onDisk = FALSE]
    /\ UNCHANGED notStorage

\* GET of outputs/<submissionId>.png by a session.
storageGET(subs, session, submissionId) ==
    LET submission == subs[submissionId] IN
    IF session = Null
    THEN [status |-> 401, session |-> session, submissionId |-> submissionId, from |-> "none"]
    ELSE IF submission.onDisk
    THEN [status |-> 200, session |-> session, submissionId |-> submissionId, from |-> "disk"]
    ELSE IF submission.exists /\ submission.ownerEmail = session /\ submission.dataUri
    THEN [status |-> 200, session |-> session, submissionId |-> submissionId,
          from |-> "database"]
    ELSE [status |-> 404, session |-> session, submissionId |-> submissionId, from |-> "none"]

GET(session, submissionId) ==
    /\ storage' = [storage EXCEPT !.resp = storageGET(storage.subs, session, submissionId)]
    /\ UNCHANGED notStorage

NextStorage ==
    \/ \E submissionId \in SubmissionIds, email \in Users :
          CreateSubmission(submissionId, email)
    \/ \E submissionId \in SubmissionIds : StoreOutput(submissionId)
    \/ \E submissionId \in SubmissionIds : EvictFile(submissionId)
    \/ \E session \in Requesters, submissionId \in SubmissionIds : GET(session, submissionId)

\* C28: a rendered output file is returned by the storage endpoint only to
\* the signed-in user who owns the submission it belongs to, whether it is
\* served from disk or from the database.
C28_OnlyOwnerReceivesFile ==
    storage.resp.status = 200 =>
        storage.resp.session = storage.subs[storage.resp.submissionId].ownerEmail

(***************************************************************************)
(* Formats of a render (POST /api/render, part_005:69-83).  The stored     *)
(* formats column is a string: not JSON at all, JSON that is not an array, *)
(* or a JSON array of at most MaxFormats items.                            *)
(***************************************************************************)
MaxFormats == 3
validFormats == <<"png", "jpg", "webp", "pdf">>
FormatItems == {"png", "PNG", "jpg", "JPG", "webp", "pdf", "gif"}

StoredFormats ==
    {[tag |-> "unparsable", items |-> <<>>], [tag |-> "not an array", items |-> <<>>]}
    \cup { [tag |-> "array", items |-> items] : items \in SeqsUpTo(FormatItems, MaxFormats) }

\* String(f).toLowerCase()
toLowerCase(f) ==
    CASE f = "PNG" -> "png"
      [] f = "JPG" -> "jpg"
      [] OTHER -> f

RECURSIVE filterValid(_)
filterValid(list) ==
    IF list = <<>> THEN <<>>
    ELSE IF InSeq(Head(list), validFormats)
    THEN <<Head(list)>> \o filterValid(Tail(list))
    ELSE filterValid(Tail(list))

RECURSIVE spreadSet(_, _)
\* Mutant: the list is not passed through a Set.
keepRepeats(list, seen) == seen \o list

\* [...new Set(list)]: each value once, in the order of first occurrence.
spreadSet(list, seen) ==
    IF list = <<>> THEN seen
    ELSE IF InSeq(Head(list), seen) THEN spreadSet(Tail(list), seen)
    ELSE spreadSet(Tail(list), Append(seen, Head(list)))

parseFormats(stored) ==
    IF stored.tag = "unparsable" THEN <<"png">>
    ELSE LET formats ==
                IF stored.tag = "array" /\ Len(stored.items) > 0
                THEN spreadSet(filterValid([i \in 1..Len(stored.items) |->
                                               toLowerCase(stored.items[i])]), <<>>)
                ELSE <<>> IN
         IF Len(formats) = 0 THEN <<"png">> ELSE formats

ParseFormats(stored) ==
    /\ ~formatsRun.called
    /\ formatsRun' = [called |-> TRUE, stored |-> stored, formats |-> parseFormats(stored)]
    /\ UNCHANGED notFormats

ParseFormatsCall ==
    /\ ~formatsRun.called
    /\ \E stored \in StoredFormats : ParseFormats(stored)

NextFormats == ParseFormatsCall

NoValidFormat(stored) ==
    \A i \in 1..Len(stored.items) : ~InSeq(toLowerCase(stored.items[i]), validFormats)

\* C29: the list of formats rendered for a submission is non-empty,
\* duplicate-free and within {png, jpg, webp, pdf}; when the stored value is
\* unparsable, empty or contains no valid format, exactly <<"png">> is rendered.
C29_FormatsWellFormed ==
    formatsRun.called =>
        LET formats == formatsRun.formats IN
        /\ Len(formats) > 0
        /\ \A i, j \in 1..Len(formats) : i # j => formats[i] # formats[j]
        /\ \A i \in 1..Len(formats) : InSeq(formats[i], validFormats)
        /\ (formatsRun.stored.tag = "unparsable" \/ NoValidFormat(formatsRun.stored))
              => formats = <<"png">>

\* A stored array that names one format twice, in two spellings, and another.
C29_Witness ==
    /\ formatsRun.called
    /\ formatsRun.stored.tag = "array"
    /\ \E i, j \in 1..Len(formatsRun.stored.items) :
          /\ i # j
          /\ formatsRun.stored.items[i] # formatsRun.stored.items[j]
          /\ toLowerCase(formatsRun.stored.items[i]) = toLowerCase(formatsRun.stored.items[j])
    /\ Len(formatsRun.formats) = 2

(***************************************************************************)
(* The auto-refresh component (components/AutoRefresh.tsx, and its earlier *)
(* form in part_022).  One component instance is mounted for one           *)
(* submission; its effect starts an interval unless hasOutputs, each tick  *)
(* of the interval may issue a poll request, and a response that shows     *)
(* outputs clears the interval and asks the router to refresh the page,    *)
(* which re-renders the component with hasOutputs = true.                  *)
(*   "ref"     : the interval id is kept in intervalRef and concurrent     *)
(*               requests are prevented by isCheckingRef;                  *)
(*   "closure" : the interval id is a constant of the effect's closure and *)
(*               every tick issues a request.                              *)
(* issued counts the poll requests; seenOutputs and pollsAfter record      *)
(* what the claim is about.                                                *)
(***************************************************************************)
MaxPolls == 4
ComponentVersions == {"ref", "closure"}
Outcomes == {"outputs", "empty", "error"}

Mounted(version, hasOutputs) ==
    [mounted |-> TRUE, unmounted |-> FALSE, version |-> version,
     hasOutputs |-> hasOutputs, interval |-> ~hasOutputs, isChecking |-> FALSE,
     inFlight |-> 0, issued |-> 0, outputsReady |-> hasOutputs,
     refreshPending |-> FALSE, seenOutputs |-> FALSE, pollsAfter |-> 0]

\* The component is on the page.
Live(r) == r.mounted /\ ~r.unmounted

\* First run of the effect.
Mount(version, hasOutputs) ==
    /\ ~refresh.mounted
    /\ refresh' = Mounted(version, hasOutputs)
    /\ UNCHANGED notRefresh

\* The render route stores the submission's outputs.
OutputsStored ==
    /\ refresh.mounted
    /\ ~refresh.outputsReady
    /\ refresh' = [refresh EXCEPT !.outputsReady = TRUE]
    /\ UNCHANGED notRefresh

\* The interval's callback up to its fetch.
Tick ==
    /\ refresh.mounted
    /\ refresh.interval
    /\ refresh.issued < MaxPolls
    /\ IF refresh.version = "ref" /\ refresh.isChecking
       THEN UNCHANGED refresh
       ELSE refresh' = [refresh EXCEPT
                          !.isChecking = (refresh.version = "ref"),
                          !.inFlight = @ + 1,
                          !.issued = @ + 1,
                          !.pollsAfter = IF refresh.seenOutputs THEN @ + 1 ELSE @]
    /\ UNCHANGED notRefresh

\* Mutant: a response that shows outputs leaves the interval running.
intervalKept(r, outcome) == r.interval

\* clearInterval in the response handler.
intervalAfter(r, outcome) ==
    IF outcome = "outputs" THEN FALSE ELSE r.interval

\* The rest of the callback, once the fetch settles.
Respond(outcome) ==
    /\ refresh.mounted
    /\ refresh.inFlight > 0
    /\ outcome = "outputs" => refresh.outputsReady
    /\ refresh' = [refresh EXCEPT
                      !.inFlight = @ - 1,
                      !.interval = intervalAfter(refresh, outcome),
                      !.refreshPending = @ \/ (outcome = "outputs" /\ Live(refresh)),
                      !.seenOutputs = @ \/ (outcome = "outputs" /\ Live(refresh)),
                      !.isChecking = FALSE]
    /\ UNCHANGED notRefresh

\* router.refresh() has re-rendered the page: hasOutputs is now true, the
\* effect's cleanup runs and the effect returns without an interval.
PageRefreshed ==
    /\ Live(refresh)
    /\ refresh.refreshPending
    /\ refresh' = [refresh EXCEPT !.refreshPending = FALSE, !.hasOutputs = TRUE,
                                  !.interval = FALSE, !.isChecking = FALSE]
    /\ UNCHANGED notRefresh

\* Unmount runs the effect's cleanup.
Unmount ==
    /\ refresh.mounted
    /\ ~refresh.unmounted
    /\ refresh' = [refresh EXCEPT !.unmounted = TRUE, !.interval = FALSE,
                                  !.isChecking = FALSE]
    /\ UNCHANGED notRefresh

NextRefresh ==
    \/ \E version \in ComponentVersions, hasOutputs \in BOOLEAN : Mount(version, hasOutputs)
    \/ OutputsStored
    \/ Tick
    \/ \E outcome \in Outcomes : Respond(outcome)
    \/ PageRefreshed
    \/ Unmount

\* C30: once a poll response of the mounted component shows a non-empty
\* outputs list, the polling interval is cleared and no further poll
\* request is issued.
C30_PollingStopsOnOutputs ==
    (Live(refresh) /\ refresh.seenOutputs) =>
        (~refresh.interval /\ refresh.pollsAfter = 0)

\* The closure version after two overlapping requests: one has shown the
\* outputs, the other is still in flight.
C30_Witness ==
    /\ Live(refresh)
    /\ refresh.seenOutputs
    /\ refresh.issued >= 2
    /\ refresh.inFlight > 0

NoVariantRun == [applied |-> FALSE]
NoPalette == [renderer |-> "none"]
NoAssetRun == [status |-> "none"]
NoFormatCall == [called |-> FALSE]
NoStorage == [subs |-> [id \in SubmissionIds |-> NoSubmission], resp |-> NoFileResponse]
NoFormatsRun == [called |-> FALSE]
Unmounted == [mounted |-> FALSE, unmounted |-> FALSE]

(***************************************************************************)
(* Initial state and specifications.                                       *)
(***************************************************************************)
Init ==
    /\ rIn = [kind |-> "none", template |-> <<>>,
              submission |-> [top |-> NoValues, fields |-> NoValues,
                              images |-> [logo |-> Null], people |-> <<>>,
                              uploadUrls |-> <<>>]]
    /\ rOut = [status |-> "none", html |-> <<>>, diagnostics |-> {}]
    /\ group = [id |-> Null, type |-> "GROUP", children |-> <<>>,
                width |-> 0, height |-> 0]
    /\ svgs = NoSvgs
    /\ renderable = <<>>
    /\ maskPath = Null
    /\ detected = NotMasked
    /\ prevDetected = NotMasked
    /\ reordered = FALSE
    /\ db = [f \in Families |-> NoTemplate]
    /\ files = [f \in Families |-> NoFiles]
    /\ configCache = [f \in Families |-> NoConfig]
    /\ req = NoRequest
    /\ resp = NoResponse
    /\ globalNodeIdCounter = 0
    /\ inFlight = 0
    /\ lastSchema = NoSchema
    /\ lastCall = NoCall
    /\ schemaFiles = [i \in 1..NumVariants |-> NoSchema]
    /\ unified = NoSchema
    /\ raw = NoRaw
    /\ exportFile = NoExport
    /\ schemaCache = [k \in CacheKeys |-> NoSchema]
    /\ lastLoad = NoLoad
    /\ rendered = NoRender
    /\ variantRun = NoVariantRun
    /\ palette = NoPalette
    /\ assetRun = NoAssetRun
    /\ formatCall = NoFormatCall
    /\ storage = NoStorage
    /\ formatsRun = NoFormatsRun
    /\ refresh = Unmounted

SpecRender == Init /\ [][NextRender]_vars
SpecMask == Init /\ [][NextMask]_vars
SpecImport == Init /\ [][NextImport]_vars
SpecAdapter == Init /\ [][NextAdapter]_vars
SpecUnify == Init /\ [][NextUnify]_vars
SpecNormalize == Init /\ [][NextNormalize]_vars
SpecRegistry == Init /\ [][NextRegistry]_vars
SpecCanvas == Init /\ [][NextCanvas]_vars
SpecVariant == Init /\ [][NextVariant]_vars
SpecPalette == Init /\ [][NextPalette]_vars
SpecAssets == Init /\ [][NextAssets]_vars
SpecFormat == Init /\ [][NextFormat]_vars
SpecStorage == Init /\ [][NextStorage]_vars
SpecFormats == Init /\ [][NextFormats]_vars
SpecRefresh == Init /\ [][NextRefresh]_vars

(***************************************************************************)
(*                              PROPERTIES                                 *)
(***************************************************************************)

\* Positions of the tokens of a document that read exactly `pattern`, in document order.
SlotsOf(template, pattern) ==
    SelectSeq([i \in 1..Len(template) |-> i], LAMBDA i : template[i].s = pattern)

People == rIn.submission.people
Uploads == rIn.submission.uploadUrls

\* C4 (as claimed): with k occurrences of one per-person placeholder (the name
\* text, or the headshot image reference in src attributes) and k people who
\* all carry a value, the i-th occurrence holds person i's value after rendering.
C4_PerSlotBinding ==
    rIn.kind = "people" =>
        /\ LET slots == SlotsOf(rIn.template, NamePattern) IN
            (/\ Len(slots) = Len(People)
             /\ \A i \in 1..Len(People) : People[i].name = PersonNames[i])
            => \A i \in 1..Len(slots) : rOut.html[slots[i]].s = PersonNames[i]
        /\ LET slots == SlotsOf(rIn.template, HeadshotPattern) IN
            (/\ Len(slots) = Len(People)
             /\ \A i \in 1..Len(slots) : rIn.template[slots[i]].kind = "src"
             /\ \A i \in 1..Len(People) : Uploads[i] = Headshots[i])
            => \A i \in 1..Len(slots) : rOut.html[slots[i]].s = Headshots[i]

\* C5 (as claimed): resolution is positional; when person N has no name, the
\* N-th name slot is not filled with the name of a later person.
C5_NoForwardShift ==
    rIn.kind = "people" =>
        LET slots == SlotsOf(rIn.template, NamePattern) IN
        \A n \in 1..Len(slots) :
            (n <= Len(People) /\ People[n].name = "")
            => \A m \in (n + 1)..Len(People) :
                    People[m].name = PersonNames[m] => rOut.html[slots[n]].s # PersonNames[m]

\* C6 (as claimed): a replacement made for a later person never rewrites a
\* name that was already substituted for an earlier person: a slot first
\* written for person p still reads person p's name after rendering.
C6_NoOverwrite ==
    rIn.kind = "people" =>
        \A i \in 1..Len(rOut.html) :
            (rIn.template[i].s = NamePattern /\ rOut.html[i].by # <<>>)
            => rOut.html[i].s = People[rOut.html[i].by[1]].name

\* What a slot of the field reads after replaceField was given `value`.
Rendered(field, value) ==
    IF replacementValue(field, value) = Null THEN field.pattern
    ELSE replacementValue(field, value)

NonListFields == {k \in 1..Len(ConfigFields) : ConfigFields[k].type \in {"text", "date", "color"}}

\* C7: for a non-list field with a top-level value, every slot of the field
\* renders the top-level value, whatever the dynamic-fields map holds; the
\* dynamic-fields value is rendered only when there is no top-level value.
C7_TopLevelWins ==
    rIn.kind = "fields" =>
        \A k \in NonListFields :
            LET f == ConfigFields[k]
                top == rIn.submission.top[f.name]
                dyn == rIn.submission.fields[f.name]
                slots == SlotsOf(rIn.template, f.pattern)
            IN  \A i \in 1..Len(slots) :
                    /\ top # Null => rOut.html[slots[i]].s = Rendered(f, top)
                    /\ (top = Null /\ dyn # Null) => rOut.html[slots[i]].s = Rendered(f, dyn)
                    /\ (dyn # Null /\ rOut.html[slots[i]].s = Rendered(f, dyn)
                            /\ Rendered(f, dyn) # Rendered(f, top)) => top = Null

C7_Witness ==
    /\ rIn.kind = "fields"
    /\ rIn.submission.top["eventTitle"] = "Launch Night"
    /\ rIn.submission.fields["eventTitle"] = "Dyn Title"
    /\ \E i \in 1..Len(rIn.template) :
          rIn.template[i].s = TitlePattern /\ rOut.html[i].s = "Launch Night"

\* A bound non-list field that has no value in the submission nor in the
\* dynamic-fields map (an image field: no uploaded image).
HasNoValue(f) ==
    IF f.type = "image" THEN rIn.submission.images[f.name] = Null
    ELSE rIn.submission.top[f.name] = Null /\ rIn.submission.fields[f.name] = Null

BoundFields == {k \in 1..Len(ConfigFields) : ConfigFields[k].type # "people"}

C9_UnresolvedReported ==
    rIn.kind = "fields" =>
        \A k \in BoundFields :
            (/\ HasNoValue(ConfigFields[k])
             /\ \E i \in 1..Len(rIn.template) : rIn.template[i].s = ConfigFields[k].pattern)
            => ConfigFields[k].name \in rOut.diagnostics

\* One child is a shape and the other a rectangle carrying an image paint.
ShapeAndImageRect(g) ==
    /\ Len(g.children) = 2
    /\ \E i, j \in 1..2 :
          /\ i # j
          /\ isShape(g.children[i])
          /\ g.children[j].type = "RECTANGLE" /\ hasImageFill(g.children[j])

\* C10 (as claimed): a GROUP of one shape and one image-filled rectangle is
\* detected with the same mask node and image node in both child orders.
C10_OrderIndependent ==
    (reordered /\ group.type = "GROUP" /\ ShapeAndImageRect(group)) =>
        /\ detected.found
        /\ prevDetected.found
        /\ detected.maskNode.id = prevDetected.maskNode.id
        /\ detected.imageNode.id = prevDetected.imageNode.id
\* The ids of all nodes of a schema tree, in pre-order.
RECURSIVE AllIds(_)
RECURSIVE AllIdsFrom(_, _)
AllIdsFrom(children, i) ==
    IF i > Len(children) THEN <<>>
    ELSE AllIds(children[i]) \o AllIdsFrom(children, i + 1)

AllIds(node) == <<node.id>> \o AllIdsFrom(node.children, 1)

\* The ids of a schema's own nodes: its tree, or its node list.
SchemaIds(schema) ==
    IF "root" \in DOMAIN schema THEN AllIds(schema.root)
    ELSE AllIdsFrom(schema.nodes, 1)

\* C1: in every schema the markup adapter returns, no two nodes of the tree,
\* the root included and at any depth, have the same id.
C1_UniqueNodeIds ==
    lastSchema.exists =>
        LET ids == SchemaIds(lastSchema) IN
        \A i, j \in 1..Len(ids) : i # j => ids[i] # ids[j]

\* A conversion that ran after another one that started later had reset the
\* counter, and produced containers nested in containers.
C1_Witness ==
    /\ lastSchema.exists
    /\ lastSchema.converter = "v3"
    /\ \E i \in 1..Len(lastSchema.root.children) :
          \E j \in 1..Len(lastSchema.root.children[i].children) :
              lastSchema.root.children[i].children[j].children # <<>>
    /\ globalNodeIdCounter > Len(SchemaIds(lastSchema))

\* Every nodeId named by a variant override or by the bindings index of a
\* schema is the id of one of its nodes.
ReferencesResolve(schema) ==
    schema.exists =>
        /\ \A v \in 1..Len(schema.variants) :
              \A o \in 1..Len(schema.variants[v].overrides) :
                  InSeq(schema.variants[v].overrides[o].nodeId, SchemaIds(schema))
        /\ \A b \in 1..Len(schema.bindings) :
              InSeq(schema.bindings[b].nodeId, SchemaIds(schema))

\* C2 (as claimed): in the unified schema and in every variant schema
\* written, each nodeId named by a variant override and each nodeId of the
\* bindings index is the id of a node of that schema's own tree.
C2_ReferentialIntegrity ==
    /\ ReferencesResolve(unified)
    /\ \A i \in 1..NumVariants : ReferencesResolve(schemaFiles[i])

\* The nodes of an export body hold two nodes with the same id.
HasDuplicateId(body) ==
    \E i, j \in 1..Len(body.nodes) :
        i # j /\ body.nodes[i].valid /\ body.nodes[i].id = body.nodes[j].id

\* C3 (as claimed): an import whose export holds two nodes with the same id
\* is answered with an error and changes neither the database nor the
\* template files.
C3_InvalidImportRejected ==
    [][(req.pending /\ ~req'.pending /\ HasDuplicateId(req.body))
        => (resp'.status >= 400 /\ db' = db /\ files' = files)]_vars

\* The container was rendered as one masked image.
Collapsed == \E i \in 1..Len(renderable) : renderable[i].masked

\* A child rendered on its own: a bound child has an entry carrying its
\* binding (on itself, or on the frame it is the text of), an unbound shape
\* a static entry; neither entry is a masked image.
RenderedNormally(child) ==
    IF child.bind # Null
    THEN \E i \in 1..Len(renderable) :
            /\ renderable[i].node \in {child.id, group.id}
            /\ renderable[i].binding = child.bind
            /\ ~renderable[i].masked
    ELSE isShape(child) =>
            \E i \in 1..Len(renderable) :
                /\ renderable[i].node = child.id
                /\ renderable[i].isStatic
                /\ ~renderable[i].masked

\* C11 (as claimed): a container is rendered as a masked image only if it
\* has exactly two children, one a vector/rectangle/ellipse shape and the
\* other a rectangle carrying an image paint; every other container is not
\* collapsed and each of its children is rendered on its own.
C11_CollapsedOnlyIfMaskedPair ==
    group.id # Null =>
        IF Collapsed
        THEN ShapeAndImageRect(group)
        ELSE \A i \in 1..Len(group.children) : RenderedNormally(group.children[i])

\* Vector markup is in the export for the node.
Available(svg) == svg.present /\ ~svg.blank

\* The written mask path is the path extracted from svg.
TakenFrom(svg) ==
    /\ extractPathDFromSvg(svg).found
    /\ maskPath = extractPathDFromSvg(svg).d

\* C12 (as claimed): the mask path of a masked-image group is taken from the
\* mask shape's own vector markup when that is available, otherwise from the
\* group's, and only when neither is available is it the ellipse sized to
\* the group's width and height.
C12_MaskPathSource ==
    maskPath # Null =>
        LET m == svgs[detected.maskNode.id]
            g == svgs[group.id]
        IN  IF Available(m) THEN TakenFrom(m)
            ELSE IF Available(g) THEN TakenFrom(g)
            ELSE maskPath = ellipsePathD(group.width, group.height)

\* C12 (amended): the mask path is the path extracted from the mask shape's
\* own vector markup when that yields a non-empty path, otherwise the one
\* extracted from the group's markup, and only when neither yields one is it
\* the ellipse sized to the group's width and height, 100 standing in for a
\* zero or missing dimension.
C12_MaskPathFromExtractedPath ==
    maskPath # Null =>
        LET m == svgs[detected.maskNode.id]
            g == svgs[group.id]
        IN  IF Usable(extractPathDFromSvg(m)) THEN TakenFrom(m)
            ELSE IF Usable(extractPathDFromSvg(g)) THEN TakenFrom(g)
            ELSE maskPath = ellipsePathD(IF group.width = 0 THEN 100 ELSE group.width,
                                         IF group.height = 0 THEN 100 ELSE group.height)

\* A masked group whose mask shape has markup without a path while the
\* group's markup has one, which became the mask path.
C12_Witness ==
    /\ maskPath # Null
    /\ Available(svgs[detected.maskNode.id])
    /\ Available(svgs[group.id])
    /\ ~Usable(extractPathDFromSvg(svgs[detected.maskNode.id]))
    /\ maskPath = extractPathDFromSvg(svgs[group.id]).d

\* Every node of a raw tree below the frame, paired with its normalised node.
RECURSIVE DescendantPairs(_, _)
DescendantPairs(rawNode, outNode) ==
    UNION { {<<rawNode.children[i], outNode.children[i]>>}
            \cup DescendantPairs(rawNode.children[i], outNode.children[i])
            : i \in 1..Len(rawNode.children) }

\* C13 (as claimed): in the normalised export the root node sits at (0, 0)
\* and the x/y of every descendant is its absolute position minus the root's
\* own absolute top-left corner.
C13_RelativeToRoot ==
    (exportFile.written /\ getBox(raw).present) =>
        LET root == exportFile.nodes[1]
        IN  /\ root.x = 0 /\ root.y = 0
            /\ \A p \in DescendantPairs(raw, root) :
                  getBox(p[1]).present =>
                      /\ p[2].x = getBox(p[1]).x - getBox(raw).x
                      /\ p[2].y = getBox(p[1]).y - getBox(raw).y

\* The text nodes of a schema tree.
RECURSIVE TextNodesOf(_)
TextNodesOf(node) ==
    (IF node.type = "text" THEN {node} ELSE {})
        \cup UNION { TextNodesOf(node.children[i]) : i \in 1..Len(node.children) }

\* A configured replacement pattern matches the content: the field it names.
patternBinding(content) ==
    LET hits == { k \in 1..Len(ConfigFields) : Includes(content, ConfigFields[k].pattern) }
        peopleHits == { k \in 1..Len(PersonFields) : Includes(content, PersonFields[k].pattern) }
    IN  IF hits # {} THEN ConfigFields[CHOOSE k \in hits : \A j \in hits : k <= j].name
        ELSE IF peopleHits # {}
        THEN "people[0]." \o PersonFields[CHOOSE k \in peopleHits : \A j \in peopleHits : k <= j].name
        ELSE Null

\* The binding the fixed priority order gives a content: the configured
\* patterns first, then placeholder marker, date shape, opening hours, street
\* address, city line, "@", two-word name, long caption without a colon.
firstMatchingRule(content) ==
    IF patternBinding(content) # Null THEN patternBinding(content)
    ELSE IF Includes(content, "Placeholder Text") THEN "eventTitle"
    ELSE IF MatchesDate(content) THEN "eventDate"
    ELSE IF Includes(content, "Doors open") \/ Includes(content, "Ouverture") THEN "doorTime"
    ELSE IF Includes(content, "Blvd") \/ Includes(content, "Bd") THEN "addressLine"
    ELSE IF MatchesCity(content) THEN "cityLine"
    ELSE IF Includes(content, "@") THEN "people[0].role"
    ELSE IF MatchesName(content) THEN "people[0].name"
    ELSE IF Len(content) > 20 /\ ~Includes(content, ":") THEN "people[0].talkTitle"
    ELSE Null

\* C14 (as claimed): the binding of every text node of a schema the markup
\* adapter returned is the one the first matching rule of the fixed order
\* gives its content.
C14_FirstMatchWins ==
    (lastSchema.exists /\ "root" \in DOMAIN lastSchema) =>
        \A t \in TextNodesOf(lastSchema.root) : t.binding = firstMatchingRule(t.content)

\* The nodes of a schema: those of its tree, or of its node list.
RECURSIVE NodesBelow(_)
NodesBelow(node) ==
    {node} \cup UNION { NodesBelow(node.children[i]) : i \in 1..Len(node.children) }

SchemaNodes(schema) ==
    IF "root" \in DOMAIN schema THEN NodesBelow(schema.root)
    ELSE { schema.nodes[i] : i \in 1..Len(schema.nodes) }

\* The kind of binding a node of the schema carries.
KindOf(node) == IF node.type = "text" THEN "text" ELSE "image"

\* C15: in every schema an adapter returns, the bindings index holds exactly
\* one entry for each node that carries a binding, with that node's id, field
\* and kind, and no entry for a node that carries none.
C15_BindingsIndexInSync ==
    lastSchema.exists =>
        LET index == lastSchema.bindings
            nodes == SchemaNodes(lastSchema)
        IN  /\ \A n \in nodes :
                  n.binding # Null =>
                      /\ Cardinality({i \in 1..Len(index) : index[i].nodeId = n.id}) = 1
                      /\ \E i \in 1..Len(index) :
                            index[i] = [nodeId |-> n.id, field |-> n.binding, type |-> KindOf(n)]
            /\ \A i \in 1..Len(index) :
                  \E n \in nodes : n.id = index[i].nodeId /\ n.binding # Null

\* A tree schema with a bound node below a container of the root and an
\* unbound text node.
C15_Witness ==
    /\ lastSchema.exists
    /\ "root" \in DOMAIN lastSchema
    /\ \E i \in 1..Len(lastSchema.root.children) :
          \E n \in NodesBelow(lastSchema.root.children[i]) :
              n # lastSchema.root.children[i] /\ n.binding # Null
    /\ \E n \in NodesBelow(lastSchema.root) : n.type = "text" /\ n.binding = Null
    /\ Len(lastSchema.bindings) > 1

\* An element whose only content is text: a div with text and no block,
\* image or vector child element.
TextOnly(element) ==
    element.tag = "div" /\ ~hasBlockChildren(element) /\ HasText(element)

\* The Flex and Box nodes of a sequence of schema nodes, at any depth.
RECURSIVE ContainerCount(_, _)
ContainerCount(nodes, i) ==
    IF i > Len(nodes) THEN 0
    ELSE (IF nodes[i].type \in {"flex", "box"} THEN 1 ELSE 0)
         + ContainerCount(nodes[i].children, 1) + ContainerCount(nodes, i + 1)

\* The div elements below an element that are not text-only, at any depth.
RECURSIVE OtherDivs(_, _)
OtherDivs(kids, i) ==
    IF i > Len(kids) THEN 0
    ELSE (IF kids[i].tag = "div" /\ ~TextOnly(kids[i])
          THEN 1 + OtherDivs(kids[i].kids, 1) ELSE 0)
         + OtherDivs(kids, i + 1)

RECURSIVE FlexOrOtherDivs(_, _, _)
FlexOrOtherDivs(kids, i, inherited) ==
    IF i > Len(kids) THEN 0
    ELSE LET display == IF kids[i].tag = "div" /\ kids[i].display # Null
                        THEN kids[i].display ELSE inherited
         IN  (IF kids[i].tag = "div" /\ (~TextOnly(kids[i]) \/ display = "flex")
              THEN 1 + FlexOrOtherDivs(kids[i].kids, 1, display) ELSE 0)
             + FlexOrOtherDivs(kids, i + 1, inherited)

\* The text-only divs below an element whose layout mode is / is not flex.
RECURSIVE TextOnlyDivs(_, _, _, _)
TextOnlyDivs(kids, i, inherited, flex) ==
    IF i > Len(kids) THEN 0
    ELSE LET display == IF kids[i].tag = "div" /\ kids[i].display # Null
                        THEN kids[i].display ELSE inherited
         IN  (IF kids[i].tag # "div" THEN 0
              ELSE IF TextOnly(kids[i]) THEN (IF (display = "flex") = flex THEN 1 ELSE 0)
              ELSE TextOnlyDivs(kids[i].kids, 1, display, flex))
             + TextOnlyDivs(kids, i + 1, inherited, flex)

C17_RootHasConfiguredSize ==
    lastCall.converter = "v3" =>
        (lastSchema.exists <=>
            (/\ lastCall.document.width = lastCall.config.width
             /\ lastCall.document.height = lastCall.config.height))

\* C19 (as claimed): a conversion that ran interleaved with others returns
\* the schema, node ids included, that it returns when it runs alone, that
\* is from a counter it has just reset.
C19_ConcurrentConversionsIndependent ==
    lastCall.converter = "v3" =>
        lastSchema = buildLayoutSchema(lastCall.document, lastCall.config, 0).schema

\* C18: a render call, and the schema load of a render, leaves the stored
\* templates, configs and schemas as they were, and every lookup of a config
\* or a schema returns after the call what it returned before it.
RenderStep == RenderSubmissionCall \/ getNodeTemplateSchemaCall

C18_RenderLeavesStoreUnchanged ==
    [][RenderStep =>
          /\ db' = db /\ files' = files
          /\ schemaFiles' = schemaFiles /\ unified' = unified
          /\ \A f \in Families :
                configOf(configCache', files', f) = configOf(configCache, files, f)
          /\ \A k \in CacheKeys :
                schemaOf(schemaCache', schemaFiles', unified', k)
                    = schemaOf(schemaCache, schemaFiles, unified, k)]_vars

\* A render of an imported template succeeded on a config that the call
\* read through the cache.
C18_Witness ==
    /\ rendered.status = "ok"
    /\ db[rendered.submission.templateFamily].exists
    /\ configCache[rendered.submission.templateFamily]
            = files[rendered.submission.templateFamily].config
    /\ rendered.html # <<>>

\* C20: when a re-import of a template completes, a lookup of that
\* template's config returns the config that import stored.
C20_LookupReturnsReimported ==
    [][LET templateId == templateIdOf(req.body.name)
       IN  (/\ req.pending
            /\ POST
            /\ resp'.status = 200
            /\ db[templateId].exists \/ files[templateId].exists)
           => configOf(configCache', files', templateId)
                = (IF req.dbDown THEN files'[templateId].config
                   ELSE db'[templateId].configJson)]_vars

\* C21: a successful import of a design whose id is already stored leaves,
\* for that id, exactly what the new import generated: the row a first import
\* of that export would create, with no markup or config of the earlier
\* import beside it.
C21_ReimportReplacesWhole ==
    [][LET templateId == templateIdOf(req.body.name)
           config == generateConfig(req.body)
           html == generateHTMLTemplate(req.body)
       IN  (/\ req.pending
            /\ ~req.dbDown
            /\ db[templateId].exists
            /\ POST
            /\ resp'.status = 200)
           => db'[templateId] = upsert(NoTemplate, config, html, FALSE)]_vars

C23_StoredCanvasPositive ==
    \A f \in Families :
        /\ db[f].exists =>
              /\ db[f].width > 0 /\ db[f].height > 0
              /\ db[f].configJson.width > 0 /\ db[f].configJson.height > 0
        /\ files[f].exists =>
              files[f].config.width > 0 /\ files[f].config.height > 0

\* C24: after a variant is applied, a node is hidden exactly when the last
\* override naming it in the variant's list is a hide; a node that no
\* override names is visible.
OverridesOf(overrides, n) == {i \in 1..Len(overrides) : overrides[i].nodeId = n}

LastOverrideHides(overrides, n) ==
    /\ OverridesOf(overrides, n) # {}
    /\ LET last == CHOOSE i \in OverridesOf(overrides, n) :
                        \A j \in OverridesOf(overrides, n) : j <= i
       IN  overrides[last].operation = "hide"

C24_LastOverrideWins ==
    variantRun.applied =>
        \A n \in VariantNodeIds :
            variantRun.hidden[n] <=> LastOverrideHides(variantRun.overrides, n)

\* A variant was applied whose list shows a node and later hides it, and
\* names another node not at all.
C24_Witness ==
    /\ variantRun.applied
    /\ \E n \in VariantNodeIds, i, j \in 1..Len(variantRun.overrides) :
          /\ i < j
          /\ variantRun.overrides[i] = [nodeId |-> n, operation |-> "show"]
          /\ variantRun.overrides[j] = [nodeId |-> n, operation |-> "hide"]
          /\ variantRun.hidden[n]
    /\ \E n \in VariantNodeIds :
          OverridesOf(variantRun.overrides, n) = {} /\ ~variantRun.hidden[n]

\* C25: every secondary colour a render writes is the fixed lightening of
\* the primary colour resolved for that render, never a value stored
\* earlier.
C25_SecondaryDerivedFromPrimary ==
    palette.renderer # "none" =>
        \A c \in palette.secondaries : c = lightenColor(palette.primary, LightenPercent)

====
